---- MODULE Spec2Model ----
(***************************************************************************)
(* Coordination-and-decision core of the trading orchestrator:             *)
(*   - orchestrator/tools.py: the protocol client (_call_single_agent,     *)
(*     _extract_response_text) and the fan-out (analyze_all_agents);       *)
(*   - orchestrator/decision_engine.py: compute_final_score,               *)
(*     determine_action, make_decision.                                    *)
(*                                                                         *)
(* JSON values are tagged records [k |-> kind, v |-> payload] with kind in *)
(* "dict", "list", "str", "num", "null".  A str payload is a sequence of   *)
(* one-character strings, a list payload a sequence of items, a dict       *)
(* payload a function from keys to JSON values.                            *)
(*                                                                         *)
(* Floats are fixed point: peer scores in thousandths, weights in          *)
(* hundredths, final scores and thresholds in ten-thousandths.             *)
(***************************************************************************)
EXTENDS Integers, Sequences, FiniteSets, TLC

(***************************************************************************)
(* Program constants                                                       *)
(***************************************************************************)
MAX_RESPONSE_LENGTH == 3000

AGENT_CALL_TIMEOUT == 90

\* AGENT_CONFIG: the peers, in configuration order.
AGENT_CONFIG ==
    << [name |-> "news_agent",        default_port |-> "8001"],
       [name |-> "fundamental_agent", default_port |-> "8002"],
       [name |-> "technical_agent",   default_port |-> "8003"],
       [name |-> "expert_agent",      default_port |-> "8004"],
       [name |-> "risk_agent",        default_port |-> "8005"] >>

AgentIndex == 1..Len(AGENT_CONFIG)

AgentNames == { AGENT_CONFIG[i].name : i \in AgentIndex }

\* url = f"http://{host}:{port}/" with the default host.
AgentUrl(i) == << "http://localhost:", AGENT_CONFIG[i].default_port, "/" >>

\* The marker appended to a cut text: "\n... (truncated)".
TruncationMarker ==
    << "\n", ".", ".", ".", " ", "(", "t", "r", "u", "n", "c", "a", "t", "e", "d", ")" >>

\* _DEFAULT_WEIGHTS, in hundredths.
_DEFAULT_WEIGHTS ==
    [technical |-> 30, fundamental |-> 25, news |-> 20, expert |-> 15, risk |-> 10]

\* _DEFAULT_THRESHOLDS, in ten-thousandths.
_DEFAULT_THRESHOLDS == [buy |-> 3000, sell |-> -3000]

(***************************************************************************)
(* Bounds                                                                  *)
(***************************************************************************)
\* Short reply texts have 1..MaxShort characters.
MaxShort == 2

\* Long reply texts exceed MAX_RESPONSE_LENGTH by 1..MaxOver characters.
MaxOver == 2

(***************************************************************************)
(* JSON values and the Python operations the client applies to them        *)
(***************************************************************************)
JStr(chars) == [k |-> "str", v |-> chars]

JList(items) == [k |-> "list", v |-> items]

JDict(f) == [k |-> "dict", v |-> f]

JNum(n) == [k |-> "num", v |-> n]

JNull == [k |-> "null", v |-> 0]

EmptyDict == JDict([x \in {} |-> JNull])

EmptyList == JList(<< >>)

EmptyStr == JStr(<< >>)

IsDict(j) == j.k = "dict"

IsList(j) == j.k = "list"

IsStr(j) == j.k = "str"

\* Equality of JSON values, kind first.
JEq(a, b) == a.k = b.k /\ a.v = b.v

\* Python truthiness: None, 0, "", [] and {} are falsy.
Truthy(j) ==
    CASE j.k = "null" -> FALSE
      [] j.k = "num"  -> j.v # 0
      [] j.k = "str"  -> Len(j.v) > 0
      [] j.k = "list" -> Len(j.v) > 0
      [] j.k = "dict" -> DOMAIN j.v # {}

\* d.get(key, default) on a dict.
DictGet(d, key, default) == IF key \in DOMAIN d.v THEN d.v[key] ELSE default

\* Whether obj[0] followed by .get(...) can be evaluated: obj is a list whose
\* first item is a dict.  A str yields a character (no .get), a JSON dict has
\* no key 0, a number cannot be subscripted.
FirstIsDict(obj) == IsList(obj) /\ Len(obj.v) > 0 /\ IsDict(obj.v[1])

ErrorChars == << "e", "r", "r", "o", "r" >>

\* The Python expression `"error" in resp_json`: a key test on a dict, an
\* element test on a list, a substring test on a str; it raises TypeError on
\* None and on numbers.
InRaises(j) == j.k \in {"null", "num"}

\* ErrorIn that looks at the error member only when there is no result.
ErrorInUnlessResult(j) ==
    CASE j.k = "dict" -> "error" \in DOMAIN j.v /\ "result" \notin DOMAIN j.v
      [] j.k = "list" -> \E i \in 1..Len(j.v) : IsStr(j.v[i]) /\ j.v[i].v = ErrorChars
      [] j.k = "str"  -> \E i \in 1..Len(j.v) :
                            i + 4 <= Len(j.v) /\ SubSeq(j.v, i, i + 4) = ErrorChars
      [] OTHER        -> FALSE

ErrorIn(j) ==
    CASE j.k = "dict" -> "error" \in DOMAIN j.v
      [] j.k = "list" -> \E i \in 1..Len(j.v) : IsStr(j.v[i]) /\ j.v[i].v = ErrorChars
      [] j.k = "str"  -> \E i \in 1..Len(j.v) :
                            i + 4 <= Len(j.v) /\ SubSeq(j.v, i, i + 4) = ErrorChars
      [] OTHER        -> FALSE

\* str(x) of a JSON value, as a sequence of tokens.
RECURSIVE PyStr(_)
PyStrItems(d, keys) ==
    LET RECURSIVE Items(_)
        Items(ks) ==
            IF ks = {} THEN << >>
            ELSE LET key == CHOOSE x \in ks : TRUE
                 IN << "'", key, "': " >> \o PyStr(d[key]) \o
                    (IF ks = {key} THEN << >> ELSE << ", " >>) \o Items(ks \ {key})
    IN Items(keys)

PyStr(j) ==
    CASE j.k = "null" -> << "None" >>
      [] j.k = "num"  -> << ToString(j.v) >>
      [] j.k = "str"  -> j.v
      [] j.k = "list" -> << "[" >> \o j.v \o << "]" >>
      [] j.k = "dict" -> << "{" >> \o PyStrItems(j.v, DOMAIN j.v) \o << "}" >>

(***************************************************************************)
(* _extract_response_text                                                  *)
(***************************************************************************)
\* A function either returns a value or raises.
Return(val) == [raised |-> FALSE, val |-> val]

Raise(exc) == [raised |-> TRUE, exc |-> exc]

\* An exception object: its class and str(e).
Exc(type) == [type |-> type, msg |-> << type >>]

\* Path 2: result.status.message.parts[0].text
ExtractPath2(result) ==
    LET status == DictGet(result, "status", EmptyDict)
    IN IF ~IsDict(status) THEN Raise(Exc("AttributeError"))
       ELSE LET status_msg == DictGet(status, "message", EmptyDict)
            IN IF ~IsDict(status_msg) THEN Return(EmptyStr)
               ELSE LET parts == DictGet(status_msg, "parts", EmptyList)
                    IN IF ~Truthy(parts) THEN Return(EmptyStr)
                       ELSE IF ~FirstIsDict(parts) THEN Raise(Exc("TypeError"))
                       ELSE Return(DictGet(parts.v[1], "text", EmptyStr))

\* ExtractPath1 without the fall-through on an empty artifact text.
ExtractPath1NoFallback(result) ==
    LET artifacts == DictGet(result, "artifacts", EmptyList)
    IN IF ~Truthy(artifacts) THEN ExtractPath2(result)
       ELSE IF ~FirstIsDict(artifacts) THEN Raise(Exc("TypeError"))
       ELSE LET parts == DictGet(artifacts.v[1], "parts", EmptyList)
            IN IF ~Truthy(parts) THEN ExtractPath2(result)
               ELSE IF ~FirstIsDict(parts) THEN Raise(Exc("TypeError"))
               ELSE Return(DictGet(parts.v[1], "text", EmptyStr))

\* Path 1: result.artifacts[0].parts[0].text, falling through to path 2.
ExtractPath1(result) ==
    LET artifacts == DictGet(result, "artifacts", EmptyList)
    IN IF ~Truthy(artifacts) THEN ExtractPath2(result)
       ELSE IF ~FirstIsDict(artifacts) THEN Raise(Exc("TypeError"))
       ELSE LET parts == DictGet(artifacts.v[1], "parts", EmptyList)
            IN IF ~Truthy(parts) THEN ExtractPath2(result)
               ELSE IF ~FirstIsDict(parts) THEN Raise(Exc("TypeError"))
               ELSE LET text == DictGet(parts.v[1], "text", EmptyStr)
                    IN IF Truthy(text) THEN Return(text)
                       ELSE ExtractPath2(result)

_extract_response_text(response_json) ==
    IF ~IsDict(response_json) THEN Raise(Exc("AttributeError"))
    ELSE LET result == DictGet(response_json, "result", EmptyDict)
         IN IF ~IsDict(result) THEN Raise(Exc("AttributeError"))
            ELSE ExtractPath1(result)

(***************************************************************************)
(* _call_single_agent                                                      *)
(***************************************************************************)
ErrorResult(agent_name, error) ==
    [status |-> "error", agent |-> agent_name, error |-> error]

SuccessResult(agent_name, text) ==
    [status |-> "success", agent |-> agent_name, analysis |-> text]

\* len(text) raises TypeError on a number.
HasLen(j) == j.k \in {"str", "list", "dict"}

PyLen(j) == IF j.k = "dict" THEN Cardinality(DOMAIN j.v) ELSE Len(j.v)

\* Truncate with the length test off by one (>= instead of >).
TruncateOffByOne(text) ==
    IF PyLen(text) >= MAX_RESPONSE_LENGTH
    THEN IF IsStr(text)
         THEN Return(JStr(SubSeq(text.v, 1, MAX_RESPONSE_LENGTH) \o TruncationMarker))
         ELSE Raise(Exc("TypeError"))
    ELSE Return(text)

\* text[:MAX_RESPONSE_LENGTH] + "\n... (truncated)" is defined on a str only:
\* a list cannot be concatenated with a str and a dict cannot be sliced.
Truncate(text) ==
    IF PyLen(text) > MAX_RESPONSE_LENGTH
    THEN IF IsStr(text)
         THEN Return(JStr(SubSeq(text.v, 1, MAX_RESPONSE_LENGTH) \o TruncationMarker))
         ELSE Raise(Exc("TypeError"))
    ELSE Return(text)

\* Lines 118-134: the response body is parsed, checked and cut.
HandleBody(agent_name, resp_json) ==
    IF InRaises(resp_json) THEN Raise(Exc("TypeError"))
    ELSE IF ErrorIn(resp_json)
    THEN IF ~IsDict(resp_json) THEN Raise(Exc("TypeError"))
         ELSE Return(ErrorResult(agent_name, PyStr(resp_json.v["error"])))
    ELSE LET extracted == _extract_response_text(resp_json)
         IN IF extracted.raised THEN extracted
            ELSE LET text == extracted.val
                 IN IF ~Truthy(text)
                    THEN Return(ErrorResult(agent_name, << "Empty response" >>))
                    ELSE IF ~HasLen(text) THEN Raise(Exc("TypeError"))
                    ELSE LET cut == Truncate(text)
                         IN IF cut.raised THEN cut
                            ELSE Return(SuccessResult(agent_name, cut.val))

\* Lines 115-134: the try block.  reply is what the transport does with the
\* POST: it times out, fails to connect, fails otherwise, answers with a
\* non-2xx status, answers with a body that is not JSON, or answers with a
\* JSON body.
TryBlock(agent_name, reply) ==
    CASE reply.kind = "timeout"     -> Raise(Exc("TimeoutException"))
      [] reply.kind = "connect"     -> Raise(Exc("ConnectError"))
      [] reply.kind = "other"       -> Raise(Exc("ReadError"))
      [] reply.kind = "http_status" -> Raise(Exc("HTTPStatusError"))
      [] reply.kind = "bad_json"    -> Raise(Exc("JSONDecodeError"))
      [] reply.kind = "body"        -> HandleBody(agent_name, reply.body)

\* The except clauses without the one for httpx.TimeoutException.
ExceptClausesNoTimeout(agent_name, url, e) ==
    CASE e.type = "ConnectError" ->
            Return(ErrorResult(agent_name, << "Connection refused: " >> \o url))
      [] OTHER ->
            Return(ErrorResult(agent_name, e.msg))

\* Lines 136-152: the except clauses.
ExceptClauses(agent_name, url, e) ==
    CASE e.type = "TimeoutException" ->
            Return(ErrorResult(agent_name,
                << "Timeout after ", ToString(AGENT_CALL_TIMEOUT), ".0s" >>))
      [] e.type = "ConnectError" ->
            Return(ErrorResult(agent_name, << "Connection refused: " >> \o url))
      [] OTHER ->
            Return(ErrorResult(agent_name, e.msg))

_call_single_agent(agent_name, url, reply) ==
    LET tried == TryBlock(agent_name, reply)
    IN IF tried.raised THEN ExceptClauses(agent_name, url, tried.exc)
       ELSE tried

(***************************************************************************)
(* Replies of a peer: the inputs of one call                               *)
(***************************************************************************)
\* A text of n characters: tag on odd positions, "." on even ones.
Txt(tag, n) == [i \in 1..n |-> IF i % 2 = 1 THEN tag ELSE "."]

TextLens ==
    (0..MaxShort) \cup {MAX_RESPONSE_LENGTH}
        \cup ((MAX_RESPONSE_LENGTH + 1)..(MAX_RESPONSE_LENGTH + MaxOver))

\* How a text slot of the envelope is filled.
\*   absent  - the container key (artifacts / status) is missing
\*   empty   - artifacts: [] / status: {}
\*   scalar  - artifacts: "bad" / status.message: "bad"
\*   noparts - artifacts: [{}] / status.message: {}
\*   notext  - parts: [{"kind": "text"}]
\*   null, num, list, str - parts: [{"text": <value of that type>}]
TextOpts ==
    { [shape |-> sh, len |-> 0] : sh \in {"absent", "empty", "scalar", "noparts",
                                          "notext", "null", "num"} }
        \cup { [shape |-> "str", len |-> n] : n \in TextLens }
        \cup { [shape |-> "list", len |-> n] : n \in {1, MAX_RESPONSE_LENGTH + 1} }

WellTypedOpts == { o \in TextOpts : o.shape \in {"absent", "empty", "noparts", "notext", "str"} }

BadChars == << "b", "a", "d" >>

\* The value of the text key.
MkText(opt, tag) ==
    CASE opt.shape = "str"  -> JStr(Txt(tag, opt.len))
      [] opt.shape = "list" -> JList([i \in 1..opt.len |-> JStr(<< tag >>)])
      [] opt.shape = "num"  -> JNum(7)
      [] OTHER              -> JNull

\* parts: [{"kind": "text", "text": ...}]
MkParts(opt, tag) ==
    IF opt.shape = "notext"
    THEN JList(<< JDict([x \in {"kind"} |-> JStr(<< "t" >>)]) >>)
    ELSE JList(<< JDict([x \in {"kind", "text"} |->
                           IF x = "kind" THEN JStr(<< "t" >>) ELSE MkText(opt, tag)]) >>)

MkArtifacts(opt) ==
    CASE opt.shape = "empty"   -> EmptyList
      [] opt.shape = "scalar"  -> JStr(BadChars)
      [] opt.shape = "noparts" -> JList(<< EmptyDict >>)
      [] OTHER                 -> JList(<< JDict([x \in {"parts"} |-> MkParts(opt, "a")]) >>)

MkStatus(opt) ==
    CASE opt.shape = "empty"   -> EmptyDict
      [] opt.shape = "scalar"  -> JDict([x \in {"message"} |-> JStr(BadChars)])
      [] opt.shape = "noparts" -> JDict([x \in {"message"} |-> EmptyDict])
      [] OTHER                 ->
            JDict([x \in {"message"} |-> JDict([y \in {"parts"} |-> MkParts(opt, "s")])])

\* The error member of an error envelope.
ErrorObject == JDict([x \in {"code"} |-> JNum(-32600)])

ErrOpts == {"none", "top", "topnull", "nested"}

ResOpts == {"dict", "null", "absent"}

MkResult(err, a, s) ==
    JDict([x \in (IF a.shape = "absent" THEN {} ELSE {"artifacts"})
                   \cup (IF s.shape = "absent" THEN {} ELSE {"status"})
                   \cup (IF err = "nested" THEN {"error"} ELSE {}) |->
             CASE x = "artifacts" -> MkArtifacts(a)
               [] x = "status"    -> MkStatus(s)
               [] x = "error"     -> ErrorObject])

\* A JSON object envelope.
MkEnvelope(err, res, a, s) ==
    JDict([x \in {"jsonrpc"}
                   \cup (IF res = "absent" THEN {} ELSE {"result"})
                   \cup (IF err \in {"top", "topnull"} THEN {"error"} ELSE {}) |->
             CASE x = "jsonrpc" -> JStr(<< "2", ".", "0" >>)
               [] x = "result"  -> IF res = "null" THEN JNull ELSE MkResult(err, a, s)
               [] x = "error"   -> IF err = "top" THEN ErrorObject ELSE JNull])

\* Bodies that are JSON but not an object.
TopOpts == {"list", "errlist", "str", "errstr", "null", "num"}

MkScalarBody(top) ==
    CASE top = "list"    -> EmptyList
      [] top = "errlist" -> JList(<< JStr(ErrorChars) >>)
      [] top = "str"     -> JStr(BadChars)
      [] top = "errstr"  -> JStr(<< "x" >> \o ErrorChars)
      [] top = "null"    -> JNull
      [] top = "num"     -> JNum(7)

BodyReply(body) == [kind |-> "body", body |-> body]

FailureKinds == {"timeout", "connect", "other", "http_status", "bad_json"}

FailureReply(kind) == [kind |-> kind, body |-> JNull]

(***************************************************************************)
(* State                                                                   *)
(***************************************************************************)
VARIABLES
    callPc,       \* one call: "start" before _call_single_agent, "done" after
    callAgent,    \* one call: index of the called peer in AGENT_CONFIG
    callReply,    \* one call: what the transport does with the POST
    callResult,   \* one call: the dict _call_single_agent returned
    pc,           \* fan-out: "gather" while awaiting the tasks, then "returned"
    request,      \* fan-out: the (ticker, market) of analyze_all_agents
    replies,      \* fan-out: per peer, what the transport did (NoReply while pending)
    results,      \* fan-out: the result list of asyncio.gather, in task order
    aggregate,    \* fan-out: the dict analyze_all_agents returned
    WEIGHTS,      \* decision engine: the cached weights (module global)
    THRESHOLDS,   \* decision engine: the cached thresholds (module global)
    decPc,        \* decision engine: "start", then "scored" / "decided"
    agent_scores, \* decision engine: the peer scores passed in (agent_results)
    risk_output,  \* decision engine: the sizing output passed in
    final_score,  \* decision engine: what compute_final_score returned
    decision,     \* decision engine: what make_decision returned or raised
    sigPc,        \* signal_to_score: "start" before the call, "done" after
    signal,       \* signal_to_score: the argument
    signal_score, \* signal_to_score: the returned score, in thousandths
    factor,       \* scaling: the factor k every peer score is multiplied by
    scaled_score, \* scaling: what compute_final_score returned for k * scores
    store,        \* configuration: the values Redis holds under "weights",
                  \*   "thresholds" and "prompt:orchestrator"
    instruction,  \* configuration: root_agent.instruction
    handlers,     \* configuration: per request slot, the running update handler
    updates,      \* configuration: the number of update requests received
    scorer,       \* configuration: the iteration of compute_final_score in progress
    written,      \* configuration: every weight mapping the store has held
    tkPc,         \* ticker: "start", "first" after one lookup, "second" after two
    tkQuery,      \* ticker: the query of the first lookup_ticker call
    tkFirst,      \* ticker: what lookup_ticker returned for the query
    tkSecond,     \* ticker: what it returned for the ticker of the first result
    position,     \* sizing: the call of calculate_position_size, its arguments,
                  \*   the price history the provider answered, and the result
    prompt_update, \* prompt update: the handler of PUT /api/prompts/{agent_name},
                  \*   the prompts the store holds, root_agent.instruction and the
                  \*   reload POST to the peer
    redis,        \* configuration: whether the store is reachable, and for the
                  \*   keys "weights" and "thresholds" the form of the value held
    middleware    \* middleware: one ASGI call of A2ALoggingMiddleware: the scope,
                  \*   the request messages still to arrive, what the middleware
                  \*   and the wrapped application hold, what the client received

callVars == << callPc, callAgent, callReply, callResult >>

fanVars == << pc, request, replies, results, aggregate >>

decVars == << WEIGHTS, THRESHOLDS, decPc, agent_scores, risk_output,
             final_score, decision >>

sigVars == << sigPc, signal, signal_score >>

\* The variables of the parts other than the peer calls and the decision.
linVars == << factor, scaled_score >>

cfgVars == << store, instruction, handlers, updates, scorer, written >>

tkVars == << tkPc, tkQuery, tkFirst, tkSecond >>

\* The variables of the sizing engine, the logging middleware and the
\* prompt update.
\* The late variables other than the state of the store.
otherLate == << position, middleware, prompt_update >>

lateVars == << otherLate, redis >>

extVars == << sigVars, linVars, cfgVars, tkVars, lateVars >>

vars == << callPc, callAgent, callReply, callResult,
           pc, request, replies, results, aggregate,
           WEIGHTS, THRESHOLDS, decPc, agent_scores, risk_output,
           final_score, decision,
           sigPc, signal, signal_score,
           factor, scaled_score,
           store, instruction, handlers, updates, scorer, written,
           tkPc, tkQuery, tkFirst, tkSecond,
           position, middleware, prompt_update, redis >>

NoResult == [status |-> "none"]

NoReply == [kind |-> "none", body |-> JNull]

\* A slot of the gather result list that no task has filled yet.
Pending == [raised |-> FALSE, val |-> NoResult]

\* The variables of the parts a specification does not run.
IdleCall ==
    /\ callPc = "idle"
    /\ callAgent = 1
    /\ callReply = NoReply
    /\ callResult = NoResult

IdleFan ==
    /\ pc = "idle"
    /\ request = [ticker |-> "", market |-> ""]
    /\ replies = [i \in AgentIndex |-> NoReply]
    /\ results = [i \in AgentIndex |-> Pending]
    /\ aggregate = NoResult

IdleDecision ==
    /\ WEIGHTS = _DEFAULT_WEIGHTS
    /\ THRESHOLDS = _DEFAULT_THRESHOLDS
    /\ decPc = "idle"
    /\ agent_scores = [x \in {} |-> 0]
    /\ risk_output = [x \in {} |-> 0]
    /\ final_score = 0
    /\ decision = NoResult

NoSignal == [type |-> "none", chars |-> << >>]

IdleSignal ==
    /\ sigPc = "idle"
    /\ signal = NoSignal
    /\ signal_score = 0

IdleLinear ==
    /\ factor = 1
    /\ scaled_score = 0

\* Request slots of the server: update requests that run concurrently.
Handlers == 1..2

EmptyMap == [x \in {} |-> 0]

\* aget_prompt answers None when the store holds no orchestrator prompt.
NoPrompt == [kind |-> "None", section |-> FALSE, rows |-> EmptyMap]

NoHandler ==
    [op |-> "none", body |-> EmptyMap, pc |-> "idle", response |-> 0,
     current_prompt |-> NoPrompt]

NoScorer == [items |-> EmptyMap, keys |-> << >>, acc |-> 0, used |-> EmptyMap]

IdleConfig ==
    /\ store = [weights |-> _DEFAULT_WEIGHTS, thresholds |-> _DEFAULT_THRESHOLDS,
                prompt |-> NoPrompt]
    /\ instruction = NoPrompt
    /\ handlers = [h \in Handlers |-> NoHandler]
    /\ updates = 0
    /\ scorer = NoScorer
    /\ written = { _DEFAULT_WEIGHTS }

NoLookup ==
    [status |-> "none", ticker |-> << >>, market |-> "", tried |-> {}, caught |-> {}]

IdleTicker ==
    /\ tkPc = "idle"
    /\ tkQuery = << >>
    /\ tkFirst = NoLookup
    /\ tkSecond = NoLookup

NoPosition == [pc |-> "idle"]

IdlePosition == position = NoPosition

NoExchange == [pc |-> "idle"]

IdleExchange == middleware = NoExchange

NoPromptUpdate == [pc |-> "off"]

IdlePromptUpdate == prompt_update = NoPromptUpdate

\* The store is reachable and holds a JSON document under both keys.
StoreIntact == [up |-> TRUE, weights |-> "json", thresholds |-> "json", faults |-> 0]

IdleRedis == redis = StoreIntact

IdleLate ==
    /\ IdlePosition
    /\ IdleExchange
    /\ IdlePromptUpdate
    /\ IdleRedis
    /\ IdleRedis

IdleExt ==
    /\ IdleSignal
    /\ IdleLinear
    /\ IdleConfig
    /\ IdleTicker
    /\ IdleLate

(***************************************************************************)
(* One call                                                                *)
(***************************************************************************)
InitCall ==
    /\ callPc = "start"
    /\ callAgent \in AgentIndex
    /\ \/ \E kind \in FailureKinds : callReply = FailureReply(kind)
       \/ \E top \in TopOpts : callReply = BodyReply(MkScalarBody(top))
       \/ \E err \in ErrOpts, res \in ResOpts, a \in TextOpts, s \in TextOpts :
             /\ res # "dict" => (a.shape = "absent" /\ s.shape = "absent" /\ err # "nested")
             /\ callReply = BodyReply(MkEnvelope(err, res, a, s))
    /\ callResult = NoResult
    /\ IdleFan
    /\ IdleDecision
    /\ IdleExt

CallAgent ==
    /\ callPc = "start"
    /\ callResult' = _call_single_agent(AGENT_CONFIG[callAgent].name,
                                         AgentUrl(callAgent), callReply).val
    /\ callPc' = "done"
    /\ UNCHANGED << callAgent, callReply >>
    /\ UNCHANGED << fanVars, decVars >>
    /\ UNCHANGED extVars

NextCall == CallAgent

CallSpec == InitCall /\ [][NextCall]_vars

(***************************************************************************)
(* analyze_all_agents                                                      *)
(***************************************************************************)
Requests == { [ticker |-> "AAPL", market |-> "US"], [ticker |-> "005930", market |-> "KR"] }

\* What a peer may do with the call during a fan-out: answer with a text,
\* time out, refuse the connection, answer with an error envelope, answer
\* with an envelope that has no text, or fail in another way.
FanSuccess == BodyReply(MkEnvelope("none", "dict", [shape |-> "str", len |-> 1],
                                   [shape |-> "absent", len |-> 0]))

FanRpcError == BodyReply(MkEnvelope("top", "absent", [shape |-> "absent", len |-> 0],
                                    [shape |-> "absent", len |-> 0]))

FanEmpty == BodyReply(MkEnvelope("none", "dict", [shape |-> "absent", len |-> 0],
                                 [shape |-> "empty", len |-> 0]))

FanReplies ==
    << FanSuccess, FailureReply("timeout"), FailureReply("connect"),
       FanRpcError, FanEmpty, FailureReply("other") >>

\* Results stored in completion order: a settling task takes the first slot
\* that is still free.
GatherSlotAsCompleted(i, res) ==
    CHOOSE j \in 1..Len(res) :
        /\ ~res[j].raised /\ res[j].val = NoResult
        /\ \A h \in 1..(j - 1) : res[h].raised \/ res[h].val # NoResult

\* asyncio.gather returns the results in the order of the awaitables passed,
\* whatever the order in which they complete: task i fills slot i.
GatherSlot(i, res) == i

\* Every result that is not an exception counted as a success.
CountsEveryResult(result) == TRUE

\* Line 193: a result counts as a success when its status is "success".
CountsAsSuccess(result) == result.status = "success"

\* Lines 181-194: the loop over enumerate(results), from index i on.
RECURSIVE CollectResults(_, _, _, _)
CollectResults(res, i, agent_results, success_count) ==
    IF i > Len(res) THEN [agents |-> agent_results, success_count |-> success_count]
    ELSE LET agent_name == AGENT_CONFIG[i].name
             result == res[i]
         IN IF result.raised
            THEN CollectResults(res, i + 1,
                    (agent_name :> ErrorResult(agent_name, result.exc.msg)) @@ agent_results,
                    success_count)
            ELSE CollectResults(res, i + 1,
                    (agent_name :> result.val) @@ agent_results,
                    IF CountsAsSuccess(result.val) THEN success_count + 1
                    ELSE success_count)

\* Lines 204-210: the returned aggregate.
BuildAggregate(req, res) ==
    LET collected == CollectResults(res, 1, [x \in {} |-> NoResult], 0)
    IN [ticker |-> req.ticker,
        market |-> req.market,
        success_count |-> collected.success_count,
        total_count |-> Len(AGENT_CONFIG),
        agents |-> collected.agents]

\* What the coroutine _call_single_agent of task i returns on reply r.
TaskOutcome ==
    [i \in AgentIndex |-> [r \in 1..Len(FanReplies) |->
        _call_single_agent(AGENT_CONFIG[i].name, AgentUrl(i), FanReplies[r])]]

Init ==
    /\ pc = "gather"
    /\ request \in Requests
    /\ replies = [i \in AgentIndex |-> NoReply]
    /\ results = [i \in AgentIndex |-> Pending]
    /\ aggregate = NoResult
    /\ IdleCall
    /\ IdleDecision
    /\ IdleExt

\* The call to peer i settles: its coroutine returns (or raises) and gather
\* records the outcome.
Settle(i) ==
    /\ pc = "gather"
    /\ replies[i] = NoReply
    /\ \E r \in 1..Len(FanReplies) :
          /\ replies' = [replies EXCEPT ![i] = FanReplies[r]]
          /\ results' = [results EXCEPT ![GatherSlot(i, results)] =
                            TaskOutcome[i][r]]
    /\ UNCHANGED << pc, request, aggregate >>
    /\ UNCHANGED << callVars, decVars >>
    /\ UNCHANGED extVars

\* All calls have settled: gather returns and the aggregate is built.
Aggregate ==
    /\ pc = "gather"
    /\ \A i \in AgentIndex : replies[i] # NoReply
    /\ aggregate' = BuildAggregate(request, results)
    /\ pc' = "returned"
    /\ UNCHANGED << request, replies, results >>
    /\ UNCHANGED << callVars, decVars >>
    /\ UNCHANGED extVars

\* The next request starts a new fan-out.
StartAnalysis ==
    /\ pc = "returned"
    /\ pc' = "gather"
    /\ request' \in Requests
    /\ replies' = [i \in AgentIndex |-> NoReply]
    /\ results' = [i \in AgentIndex |-> Pending]
    /\ aggregate' = NoResult
    /\ UNCHANGED << callVars, decVars >>
    /\ UNCHANGED extVars

Next ==
    \/ \E i \in AgentIndex : Settle(i)
    \/ Aggregate
    \/ StartAnalysis

Spec == Init /\ [][Next]_vars

\* Every call gets a response or reaches its timeout, and the event loop
\* resumes the coordinator once all calls have settled.
FairSpec ==
    /\ Spec
    /\ WF_vars((\E i \in AgentIndex : Settle(i)) \/ Aggregate)

(***************************************************************************)
(* Decision engine                                                         *)
(***************************************************************************)
Categories == DOMAIN _DEFAULT_WEIGHTS

\* d.get(key, default) on a plain dict.
Get(d, key, default) == IF key \in DOMAIN d THEN d[key] ELSE default

\* A rounding to three decimals, the result still in ten-thousandths.
Round3(n) == 10 * ((n + 50) \div 100)

\* round(x, 4) of a value given in hundred-thousandths: the nearest
\* ten-thousandth, a tie going to the even one.
Round4(n) ==
    LET q == n \div 10
        r == n % 10
    IN IF r < 5 THEN q
       ELSE IF r > 5 THEN q + 1
       ELSE IF q % 2 = 0 THEN q ELSE q + 1

\* sum(agent_results.get(key, 0.0) * weight for key, weight in weights.items())
RECURSIVE WeightedSum(_, _, _)
WeightedSum(weights, scores, keys) ==
    IF keys = {} THEN 0
    ELSE LET key == CHOOSE x \in keys : TRUE
         IN Get(scores, key, 0) * weights[key]
                + WeightedSum(weights, scores, keys \ {key})

\* The weighted sum divided by the weights of the peers that answered.
compute_final_score_renormalized(scores) ==
    LET present == DOMAIN WEIGHTS \cap DOMAIN scores
        total == WeightedSum(WEIGHTS, [k \in present |-> 100], present) \div 100
    IN IF total = 0 THEN 0
       ELSE Round4((WeightedSum(WEIGHTS, scores, DOMAIN WEIGHTS) * 100) \div total)

\* The weighted sum with a missing peer counted as a buy signal of 0.5.
compute_final_score_missing_as_buy(scores) ==
    Round4(WeightedSum(WEIGHTS, [key \in DOMAIN WEIGHTS |-> Get(scores, key, 500)],
                       DOMAIN WEIGHTS))

compute_final_score(scores) ==
    Round4(WeightedSum(WEIGHTS, scores, DOMAIN WEIGHTS))

\* determine_action with the thresholds included in BUY and SELL.
determine_action_inclusive(score) ==
    IF "buy" \notin DOMAIN THRESHOLDS THEN Raise(Exc("KeyError"))
    ELSE IF score >= THRESHOLDS["buy"] THEN Return("BUY")
    ELSE IF "sell" \notin DOMAIN THRESHOLDS THEN Raise(Exc("KeyError"))
    ELSE IF score <= THRESHOLDS["sell"] THEN Return("SELL")
    ELSE Return("HOLD")

\* determine_action with the SELL test made before the BUY test.
determine_action_sell_first(score) ==
    IF "sell" \notin DOMAIN THRESHOLDS THEN Raise(Exc("KeyError"))
    ELSE IF score < THRESHOLDS["sell"] THEN Return("SELL")
    ELSE IF "buy" \notin DOMAIN THRESHOLDS THEN Raise(Exc("KeyError"))
    ELSE IF score > THRESHOLDS["buy"] THEN Return("BUY")
    ELSE Return("HOLD")

\* THRESHOLDS["buy"] and THRESHOLDS["sell"] raise KeyError on a missing key.
determine_action(score) ==
    IF "buy" \notin DOMAIN THRESHOLDS THEN Raise(Exc("KeyError"))
    ELSE IF score > THRESHOLDS["buy"] THEN Return("BUY")
    ELSE IF "sell" \notin DOMAIN THRESHOLDS THEN Raise(Exc("KeyError"))
    ELSE IF score < THRESHOLDS["sell"] THEN Return("SELL")
    ELSE Return("HOLD")

Max(a, b) == IF a > b THEN a ELSE b

Min(a, b) == IF a < b THEN a ELSE b

\* The quantity with the HOLD rule applied before the halving.
DecideQuantityHoldFirst(action, risk) ==
    LET quantity == IF action = "HOLD" THEN 0 ELSE Get(risk, "position_size", 0)
    IN IF Get(risk, "risk_level", "") = "high"
       THEN Max(1, quantity \div 2)
       ELSE quantity

\* Lines 146-155: the quantity of the decision.
DecideQuantity(action, risk) ==
    LET quantity == Get(risk, "position_size", 0)
        halved == IF Get(risk, "risk_level", "") = "high"
                  THEN Max(1, quantity \div 2)
                  ELSE quantity
    IN IF action = "HOLD" THEN 0 ELSE halved

\* Lines 144-177 of make_decision, the final score being computed.
BuildDecision(score, scores, risk) ==
    LET action == determine_action(score)
    IN IF action.raised THEN action
       ELSE Return([action |-> action.val,
                    final_score |-> score,
                    quantity |-> DecideQuantity(action.val, risk),
                    target_price |-> Get(risk, "current_price", 0),
                    stop_loss |-> Get(risk, "stop_loss_price", 0),
                    take_profit |-> Get(risk, "take_profit_price", 0),
                    agent_scores |-> scores])

\* make_decision with the default current_price = 0.0.
make_decision(scores, risk) ==
    BuildDecision(compute_final_score(scores), scores, risk)

\* Weight configurations that update_weights accepts: the five keys, the sum
\* within 0.01 of 1.0.
WeightConfigs ==
    { _DEFAULT_WEIGHTS,
      [technical |-> 50, fundamental |-> 20, news |-> 10, expert |-> 10, risk |-> 10],
      [technical |-> 30, fundamental |-> 25, news |-> 20, expert |-> 15, risk |-> 9],
      [technical |-> 121, fundamental |-> -20, news |-> 0, expert |-> 0, risk |-> 0] }

\* Threshold configurations that update_thresholds accepts: any mapping.
ThresholdConfigs ==
    { _DEFAULT_THRESHOLDS,
      [buy |-> 5000, sell |-> -1000],
      [buy |-> 0, sell |-> 0],
      [buy |-> -3000, sell |-> 3000],
      [buy |-> 3000],
      [x \in {} |-> 0] }

\* Peer scores in thousandths.
ScoreGrid == {-1000, 0, 334, 500}

\* Every mapping from some of the categories, and possibly a key that is no
\* category, to a score.
ScoreMaps == UNION { [D -> ScoreGrid] : D \in SUBSET (Categories \cup {"sentiment"}) }

InitScore ==
    /\ WEIGHTS \in WeightConfigs
    /\ THRESHOLDS = _DEFAULT_THRESHOLDS
    /\ decPc = "start"
    /\ agent_scores \in ScoreMaps
    /\ risk_output = [x \in {} |-> 0]
    /\ final_score = 0
    /\ decision = NoResult
    /\ IdleCall
    /\ IdleFan
    /\ IdleExt

ComputeFinalScore ==
    /\ decPc = "start"
    /\ final_score' = compute_final_score(agent_scores)
    /\ decPc' = "scored"
    /\ UNCHANGED << WEIGHTS, THRESHOLDS, agent_scores, risk_output, decision >>
    /\ UNCHANGED << callVars, fanVars >>
    /\ UNCHANGED extVars

NextScore == ComputeFinalScore

ScoreSpec == InitScore /\ [][NextScore]_vars

\* Position sizes reported by the sizing engine.
MaxPosition == 5

RiskLevels == {"low", "medium", "high"}

\* The sizing output: empty, an error result, a size without a risk tier, or
\* a full result.
RiskOutputs ==
    { [x \in {} |-> 0], [status |-> "error"] }
        \cup { [position_size |-> n] : n \in 0..MaxPosition }
        \cup { [status |-> "success", position_size |-> n, risk_level |-> l,
                current_price |-> 100, stop_loss_price |-> 95,
                take_profit_price |-> 108] :
               n \in 0..MaxPosition, l \in RiskLevels }

BaseScores == {-1000, -300, 0, 300, 1000}

\* Peer scores around the thresholds: four categories at s, risk at s - 1, s
\* or s + 1; no score at all; a single peer.
DecisionScoreMaps ==
    { [k \in Categories |-> IF k = "risk" THEN s + d ELSE s] :
          s \in BaseScores, d \in {-1, 0, 1} }
        \cup { [x \in {} |-> 0], [technical |-> 1000] }

InitDecision ==
    /\ WEIGHTS \in WeightConfigs
    /\ THRESHOLDS \in ThresholdConfigs
    /\ decPc = "start"
    /\ agent_scores \in DecisionScoreMaps
    /\ risk_output \in RiskOutputs
    /\ final_score = 0
    /\ decision = NoResult
    /\ IdleCall
    /\ IdleFan
    /\ IdleExt

MakeDecision ==
    /\ decPc = "start"
    /\ decision' = make_decision(agent_scores, risk_output)
    /\ final_score' = compute_final_score(agent_scores)
    /\ decPc' = "decided"
    /\ UNCHANGED << WEIGHTS, THRESHOLDS, agent_scores, risk_output >>
    /\ UNCHANGED << callVars, fanVars >>
    /\ UNCHANGED extVars

NextDecision == MakeDecision

DecisionSpec == InitDecision /\ [][NextDecision]_vars

(***************************************************************************)
(* compute_final_score on scaled peer scores                               *)
(***************************************************************************)
\* Largest factor the peer scores are multiplied by.
MaxFactor == 3

Factors == -1..MaxFactor

\* Peer scores in thousandths, small enough to stay in [-1, 1] when scaled.
LinearGrid == {-250, 0, 4, 100}

LinearScoreMaps ==
    UNION { [D -> LinearGrid] : D \in { {}, {"risk"}, {"technical", "risk"}, Categories } }

\* The peer scores, each multiplied by k.
Scaled(scores, k) == [key \in DOMAIN scores |-> k * scores[key]]

InitLinear ==
    /\ WEIGHTS \in WeightConfigs
    /\ THRESHOLDS = _DEFAULT_THRESHOLDS
    /\ decPc = "start"
    /\ agent_scores \in LinearScoreMaps
    /\ risk_output = [x \in {} |-> 0]
    /\ final_score = 0
    /\ decision = NoResult
    /\ factor \in Factors
    /\ scaled_score = 0
    /\ IdleCall
    /\ IdleFan
    /\ IdleSignal
    /\ IdleConfig
    /\ IdleTicker
    /\ IdleLate

\* A second call of compute_final_score, on the scaled scores.
ComputeScaledScore ==
    /\ decPc = "scored"
    /\ scaled_score' = compute_final_score(Scaled(agent_scores, factor))
    /\ decPc' = "scaled"
    /\ UNCHANGED << WEIGHTS, THRESHOLDS, agent_scores, risk_output, final_score,
                    decision, factor >>
    /\ UNCHANGED << callVars, fanVars, sigVars, cfgVars, tkVars, lateVars >>

NextLinear ==
    \/ ComputeFinalScore
    \/ ComputeScaledScore

LinearSpec == InitLinear /\ [][NextLinear]_vars

(***************************************************************************)
(* Configuration updates: update_weights, update_thresholds, reload_config *)
(***************************************************************************)
\* Most update requests the server receives in one run.
MaxUpdates == 2

required_keys == {"technical", "fundamental", "news", "expert", "risk"}

\* The order of the rows of the weight table, and of the keys of a weight
\* mapping that update_weights accepted.
KeyOrder == << "technical", "fundamental", "news", "expert", "risk" >>

RECURSIVE SumValues(_, _)
\* sum(body.weights.values())
SumValues(d, keys) ==
    IF keys = {} THEN 0
    ELSE LET key == CHOOSE x \in keys : TRUE
         IN d[key] + SumValues(d, keys \ {key})

\* Hundredths w for which w / 100 * 100 is just short of w as a float, so
\* that int() gives the hundredth next to it.
FloatShort == {29, 57, 58, 113, 114, 115, 116}

\* int(weights.get(key, 0) * 100): truncated toward zero.
Pct(w) ==
    IF w \in FloatShort THEN w - 1
    ELSE IF (0 - w) \in FloatShort THEN w + 1
    ELSE w

\* An orchestrator prompt: whether it has a weight section that is followed
\* by another section (what the pattern matches), and the rows of its table.
PromptText(section, rows) == [kind |-> "text", section |-> section, rows |-> rows]

\* The weight section, where the pattern finds one, is replaced by the table
\* of the new weights; the rest of the prompt is kept.
_update_weight_table_in_prompt(prompt_text, weights) ==
    IF prompt_text.section
    THEN PromptText(TRUE, [i \in 1..Len(KeyOrder) |-> Pct(Get(weights, KeyOrder[i], 0))])
    ELSE prompt_text

\* _load_weights without its defaulting: the last document written is
\* returned whatever the condition of the store.
LoadConfig_no_default(key, defaults) == store[key]

\* Lines 34-41 and 44-51: the exception of an unreachable store and of
\* json.loads on a value that is no JSON is caught, a value that is None or
\* empty is skipped, and the defaults are returned; else the document held.
LoadConfig(key, defaults) ==
    IF ~redis.up THEN defaults
    ELSE IF redis[key] \in {"none", "empty"} THEN defaults
    ELSE IF redis[key] = "invalid" THEN defaults
    ELSE store[key]

_load_weights == LoadConfig("weights", _DEFAULT_WEIGHTS)

_load_thresholds == LoadConfig("thresholds", _DEFAULT_THRESHOLDS)

\* The bodies of PUT /api/weights, in hundredths.
WeightBodies ==
    { [technical |-> 50, fundamental |-> 20, news |-> 10, expert |-> 10, risk |-> 10],
      [technical |-> 29, fundamental |-> 25, news |-> 20, expert |-> 15, risk |-> 10],
      [technical |-> 121, fundamental |-> -20, news |-> 0, expert |-> 0, risk |-> 0],
      [technical |-> 30, fundamental |-> 25, news |-> 20, expert |-> 15, risk |-> 12],
      [technical |-> 40, fundamental |-> 30, news |-> 30],
      [technical |-> 30, fundamental |-> 25, news |-> 20, expert |-> 15, risk |-> 5,
       sentiment |-> 5] }

\* The bodies of PUT /api/thresholds, in ten-thousandths.
ThresholdBodies ==
    { [buy |-> 5000, sell |-> -1000],
      [buy |-> -3000, sell |-> 3000],
      [buy |-> 3000],
      [buy |-> 3000, sell |-> -3000, hold |-> 0] }

InitialPrompts ==
    { NoPrompt,
      PromptText(FALSE, EmptyMap),
      PromptText(TRUE, [i \in 1..Len(KeyOrder) |-> Pct(_DEFAULT_WEIGHTS[KeyOrder[i]])]) }

ConfigScoreMaps ==
    { [technical |-> 1000, fundamental |-> -1000, news |-> 0, expert |-> 0, risk |-> 0],
      [technical |-> -1000, fundamental |-> -1000, news |-> -1000, expert |-> -1000,
       risk |-> -1000],
      EmptyMap }

InitConfig ==
    /\ store \in [weights : { _DEFAULT_WEIGHTS }, thresholds : { _DEFAULT_THRESHOLDS },
                  prompt : InitialPrompts]
    /\ instruction = PromptText(TRUE, [i \in 1..Len(KeyOrder) |->
                                          Pct(_DEFAULT_WEIGHTS[KeyOrder[i]])])
    /\ handlers = [h \in Handlers |-> NoHandler]
    /\ updates = 0
    /\ scorer = NoScorer
    /\ written = { _DEFAULT_WEIGHTS }
    /\ WEIGHTS = _DEFAULT_WEIGHTS
    /\ THRESHOLDS = _DEFAULT_THRESHOLDS
    /\ decPc = "start"
    /\ agent_scores \in ConfigScoreMaps
    /\ risk_output = [position_size |-> 4]
    /\ final_score = 0
    /\ decision = NoResult
    /\ IdleCall
    /\ IdleFan
    /\ IdleSignal
    /\ IdleLinear
    /\ IdleTicker
    /\ IdleLate

\* Lines 309-315: the key set, then the sum, decide whether the body is
\* accepted.
WeightsAccepted(body) ==
    /\ DOMAIN body = required_keys
    /\ SumValues(body, DOMAIN body) >= 99
    /\ SumValues(body, DOMAIN body) <= 101

\* The weights written first and validated afterwards.
StoreThenValidate(body, stored) ==
    [response |-> IF WeightsAccepted(body) THEN 200 ELSE 400, weights |-> body]

\* Lines 309-317: the HTTPException is raised before aset_weights is reached.
ValidateThenStore(body, stored) ==
    IF WeightsAccepted(body)
    THEN [response |-> 200, weights |-> body]
    ELSE [response |-> 400, weights |-> stored]

\* PUT /api/weights arrives: validation, then await aset_weights, which
\* raises when the store is unreachable.
UpdateWeights(h, body) ==
    /\ handlers[h].pc = "idle"
    /\ updates < MaxUpdates
    /\ updates' = updates + 1
    /\ LET entry == ValidateThenStore(body, store.weights)
       IN IF entry.response = 200 /\ ~redis.up
          THEN /\ handlers' = [handlers EXCEPT ![h] =
                      [op |-> "update_weights", body |-> body, pc |-> "done",
                       response |-> 500, current_prompt |-> NoPrompt]]
               /\ UNCHANGED << store, written, redis >>
          ELSE /\ store' = [store EXCEPT !.weights = entry.weights]
               /\ written' = written \cup { entry.weights }
               /\ redis' = IF entry.response = 200
                           THEN [redis EXCEPT !.weights = "json"] ELSE redis
               /\ handlers' = [handlers EXCEPT ![h] =
                      [op |-> "update_weights", body |-> body,
                       pc |-> IF entry.response = 200 THEN "aget_prompt" ELSE "done",
                       response |-> IF entry.response = 200 THEN 0 ELSE 400,
                       current_prompt |-> NoPrompt]]
    /\ UNCHANGED << instruction, scorer >>
    /\ UNCHANGED << callVars, fanVars, decVars, sigVars, linVars, tkVars, otherLate >>

\* current_prompt = await aget_prompt("orchestrator")
GetPrompt(h) ==
    /\ handlers[h].pc = "aget_prompt"
    /\ handlers' =
           IF ~redis.up
           THEN [handlers EXCEPT ![h].pc = "done", ![h].response = 500]
           ELSE [handlers EXCEPT ![h].current_prompt = store.prompt,
                                 ![h].pc = IF store.prompt.kind = "None"
                                           THEN "reload" ELSE "aset_prompt"]
    /\ UNCHANGED << store, instruction, updates, scorer, written, redis >>
    /\ UNCHANGED << callVars, fanVars, decVars, sigVars, linVars, tkVars, otherLate >>

\* await aset_prompt("orchestrator", updated_prompt)
SetPrompt(h) ==
    /\ handlers[h].pc = "aset_prompt"
    /\ LET updated_prompt == _update_weight_table_in_prompt(handlers[h].current_prompt,
                                                            handlers[h].body)
       IN IF ~redis.up
          THEN /\ handlers' = [handlers EXCEPT ![h].pc = "done", ![h].response = 500]
               /\ UNCHANGED store
          ELSE /\ store' = [store EXCEPT !.prompt = updated_prompt]
               /\ handlers' = [handlers EXCEPT ![h].current_prompt = updated_prompt,
                                               ![h].pc = "set_instruction"]
    /\ UNCHANGED << instruction, updates, scorer, written, redis >>
    /\ UNCHANGED << callVars, fanVars, decVars, sigVars, linVars, tkVars, otherLate >>

\* reload_config: both cached mappings are replaced by what the store holds.
reload_config ==
    /\ WEIGHTS' = _load_weights
    /\ THRESHOLDS' = _load_thresholds

\* update_weights from the resumption after its last await to its return:
\* the instruction is set when the prompt was rewritten, the cache reloaded.
FinishUpdateWeights(h) ==
    /\ handlers[h].pc \in {"set_instruction", "reload"}
    /\ handlers[h].op = "update_weights"
    /\ instruction' = IF handlers[h].pc = "set_instruction"
                      THEN handlers[h].current_prompt ELSE instruction
    /\ reload_config
    /\ handlers' = [handlers EXCEPT ![h].pc = "done", ![h].response = 200]
    /\ UNCHANGED << store, updates, scorer, written, redis >>
    /\ UNCHANGED << decPc, agent_scores, risk_output, final_score, decision >>
    /\ UNCHANGED << callVars, fanVars, sigVars, linVars, tkVars, otherLate >>

\* PUT /api/thresholds arrives: await aset_thresholds, whatever the body.
UpdateThresholds(h, body) ==
    /\ handlers[h].pc = "idle"
    /\ updates < MaxUpdates
    /\ updates' = updates + 1
    /\ IF ~redis.up
       THEN /\ handlers' = [handlers EXCEPT ![h] =
                   [op |-> "update_thresholds", body |-> body, pc |-> "done",
                    response |-> 500, current_prompt |-> NoPrompt]]
            /\ UNCHANGED << store, redis >>
       ELSE /\ store' = [store EXCEPT !.thresholds = body]
            /\ redis' = [redis EXCEPT !.thresholds = "json"]
            /\ handlers' = [handlers EXCEPT ![h] =
                   [op |-> "update_thresholds", body |-> body, pc |-> "reload",
                    response |-> 0, current_prompt |-> NoPrompt]]
    /\ UNCHANGED << instruction, scorer, written >>
    /\ UNCHANGED << callVars, fanVars, decVars, sigVars, linVars, tkVars, otherLate >>

\* update_thresholds from the resumption after aset_thresholds to its return.
FinishUpdateThresholds(h) ==
    /\ handlers[h].pc = "reload"
    /\ handlers[h].op = "update_thresholds"
    /\ reload_config
    /\ handlers' = [handlers EXCEPT ![h].pc = "done", ![h].response = 200]
    /\ UNCHANGED << store, instruction, updates, scorer, written, redis >>
    /\ UNCHANGED << decPc, agent_scores, risk_output, final_score, decision >>
    /\ UNCHANGED << callVars, fanVars, sigVars, linVars, tkVars, otherLate >>

\* The response is sent; the slot takes the next request.
Respond(h) ==
    /\ handlers[h].pc = "done"
    /\ updates < MaxUpdates
    /\ handlers' = [handlers EXCEPT ![h] = NoHandler]
    /\ UNCHANGED << store, instruction, updates, scorer, written, redis >>
    /\ UNCHANGED << callVars, fanVars, decVars, sigVars, linVars, tkVars, otherLate >>

\* The keys of a mapping in the order of KeyOrder.
RECURSIVE KeysInOrder(_, _)
KeysInOrder(d, order) ==
    IF order = << >> THEN << >>
    ELSE IF Head(order) \in DOMAIN d
         THEN << Head(order) >> \o KeysInOrder(d, Tail(order))
         ELSE KeysInOrder(d, Tail(order))

\* The weight of a key read from the cached mapping as it is now.
ItemWeightLive(sc, key) == WEIGHTS[key]

\* The weight of a key as WEIGHTS.items() yields it: from the mapping that
\* WEIGHTS named when the iteration began.
ItemWeight(sc, key) == sc.items[key]

\* compute_final_score begins: WEIGHTS.items() is evaluated.
BeginScore ==
    /\ decPc = "start"
    /\ scorer' = [items |-> WEIGHTS, keys |-> KeysInOrder(WEIGHTS, KeyOrder),
                  acc |-> 0, used |-> EmptyMap]
    /\ decPc' = "summing"
    /\ UNCHANGED << WEIGHTS, THRESHOLDS, agent_scores, risk_output, final_score,
                    decision >>
    /\ UNCHANGED << store, instruction, handlers, updates, written, redis >>
    /\ UNCHANGED << callVars, fanVars, sigVars, linVars, tkVars, otherLate >>

\* One term of the sum: agent_results.get(key, 0.0) * weight.
ScoreStep ==
    /\ decPc = "summing"
    /\ scorer.keys # << >>
    /\ LET key == Head(scorer.keys)
           weight == ItemWeight(scorer, key)
       IN scorer' = [scorer EXCEPT
              !.keys = Tail(scorer.keys),
              !.acc = scorer.acc + Get(agent_scores, key, 0) * weight,
              !.used = [k \in DOMAIN scorer.used \cup {key} |->
                           IF k = key THEN weight ELSE scorer.used[k]]]
    /\ UNCHANGED decVars
    /\ UNCHANGED << store, instruction, handlers, updates, written, redis >>
    /\ UNCHANGED << callVars, fanVars, sigVars, linVars, tkVars, otherLate >>

\* return round(score, 4)
FinishScore ==
    /\ decPc = "summing"
    /\ scorer.keys = << >>
    /\ final_score' = Round4(scorer.acc)
    /\ decPc' = "scored"
    /\ UNCHANGED << WEIGHTS, THRESHOLDS, agent_scores, risk_output, decision >>
    /\ UNCHANGED << cfgVars, redis >>
    /\ UNCHANGED << callVars, fanVars, sigVars, linVars, tkVars, otherLate >>

\* The rest of make_decision: determine_action and the quantity.
Decide ==
    /\ decPc = "scored"
    /\ decision' = BuildDecision(final_score, agent_scores, risk_output)
    /\ decPc' = "decided"
    /\ UNCHANGED << WEIGHTS, THRESHOLDS, agent_scores, risk_output, final_score >>
    /\ UNCHANGED << cfgVars, redis >>
    /\ UNCHANGED << callVars, fanVars, sigVars, linVars, tkVars, otherLate >>

NextConfig ==
    \/ \E h \in Handlers, body \in WeightBodies : UpdateWeights(h, body)
    \/ \E h \in Handlers : GetPrompt(h)
    \/ \E h \in Handlers : SetPrompt(h)
    \/ \E h \in Handlers : FinishUpdateWeights(h)
    \/ \E h \in Handlers, body \in ThresholdBodies : UpdateThresholds(h, body)
    \/ \E h \in Handlers : FinishUpdateThresholds(h)
    \/ \E h \in Handlers : Respond(h)
    \/ BeginScore
    \/ ScoreStep
    \/ FinishScore
    \/ Decide

ConfigSpec == InitConfig /\ [][NextConfig]_vars

(***************************************************************************)
(* The configuration store failing under the handlers                      *)
(***************************************************************************)
\* Most changes of the store's condition in one behaviour.
MaxFaults == 1

\* What get() of a key returns that _load_weights and _load_thresholds turn
\* into the defaults: no value, an empty value, a value that is no JSON.
UnusableForms == {"none", "empty", "invalid"}

ConfigKeys == {"weights", "thresholds"}

\* The store becomes unreachable: every call of the client raises.
StoreGoesDown ==
    /\ redis.up
    /\ redis.faults < MaxFaults
    /\ redis' = [redis EXCEPT !.up = FALSE, !.faults = @ + 1]
    /\ UNCHANGED << callVars, fanVars, decVars, sigVars, linVars, cfgVars, tkVars,
                    otherLate >>

StoreComesBack ==
    /\ ~redis.up
    /\ redis' = [redis EXCEPT !.up = TRUE]
    /\ UNCHANGED << callVars, fanVars, decVars, sigVars, linVars, cfgVars, tkVars,
                    otherLate >>

\* The value under a key is removed or overwritten from outside the program.
StoreValueLost(key, form) ==
    /\ redis.up
    /\ redis.faults < MaxFaults
    /\ redis[key] = "json"
    /\ redis' = [redis EXCEPT ![key] = form, !.faults = @ + 1]
    /\ UNCHANGED << callVars, fanVars, decVars, sigVars, linVars, cfgVars, tkVars,
                    otherLate >>

NextOutage ==
    \/ NextConfig
    \/ StoreGoesDown
    \/ StoreComesBack
    \/ \E key \in ConfigKeys, form \in UnusableForms : StoreValueLost(key, form)

\* One score map is enough: the scorer reads the cache and writes none of it.
InitOutage ==
    /\ InitConfig
    /\ agent_scores = CHOOSE scores \in ConfigScoreMaps : TRUE

OutageSpec == InitOutage /\ [][NextOutage]_vars

(***************************************************************************)
(* signal_to_score                                                         *)
(***************************************************************************)
\* Longest run of whitespace put before and after a grade.
MaxPad == 1

\* The members of SignalStrength, by value, as strings of characters.
STRONG_BUY == << "s", "t", "r", "o", "n", "g", "_", "b", "u", "y" >>

BUY == << "b", "u", "y" >>

HOLD == << "h", "o", "l", "d" >>

SELL == << "s", "e", "l", "l" >>

STRONG_SELL == << "s", "t", "r", "o", "n", "g", "_", "s", "e", "l", "l" >>

SignalStrength == { STRONG_BUY, BUY, HOLD, SELL, STRONG_SELL }

\* SIGNAL_SCORES in thousandths. A SignalStrength member is a str equal to
\* its value, so the enum keys and the string keys are the same five keys.
SIGNAL_SCORES ==
    { [key |-> STRONG_BUY, score |-> 1000],
      [key |-> BUY, score |-> 500],
      [key |-> HOLD, score |-> 0],
      [key |-> SELL, score |-> -500],
      [key |-> STRONG_SELL, score |-> -1000] }

\* SIGNAL_SCORES.get(key, default)
SignalScoresGet(key, default) ==
    IF \E e \in SIGNAL_SCORES : e.key = key
    THEN (CHOOSE e \in SIGNAL_SCORES : e.key = key).score
    ELSE default

Uppers ==
    << "A", "B", "C", "D", "E", "F", "G", "H", "I", "J", "K", "L", "M",
       "N", "O", "P", "Q", "R", "S", "T", "U", "V", "W", "X", "Y", "Z" >>

Lowers ==
    << "a", "b", "c", "d", "e", "f", "g", "h", "i", "j", "k", "l", "m",
       "n", "o", "p", "q", "r", "s", "t", "u", "v", "w", "x", "y", "z" >>

\* The upper-case ASCII letters, each with its lower-case letter.
UpperToLower ==
    [c \in { Uppers[i] : i \in 1..26 } |-> Lowers[CHOOSE i \in 1..26 : Uppers[i] = c]]

LowerChar(c) == IF c \in DOMAIN UpperToLower THEN UpperToLower[c] ELSE c

\* str.lower()
Lower(chars) == [i \in 1..Len(chars) |-> LowerChar(chars[i])]

Whitespace == {" ", "\t", "\n"}

RECURSIVE LStrip(_)
LStrip(chars) ==
    IF chars # << >> /\ Head(chars) \in Whitespace THEN LStrip(Tail(chars)) ELSE chars

RECURSIVE RStrip(_)
RStrip(chars) ==
    IF chars # << >> /\ chars[Len(chars)] \in Whitespace
    THEN RStrip(SubSeq(chars, 1, Len(chars) - 1))
    ELSE chars

\* str.strip()
Strip(chars) == RStrip(LStrip(chars))

\* The lookup of the argument as it was passed, neither lower-cased nor
\* stripped.
signal_to_score_exact(sig) ==
    IF sig.type \in {"str", "enum"} THEN SignalScoresGet(sig.chars, 0) ELSE 0

\* A str (a SignalStrength member is one) is lower-cased and stripped before
\* the lookup; any other hashable argument is looked up as it is and is no
\* key of SIGNAL_SCORES.
signal_to_score(sig) ==
    IF sig.type \in {"str", "enum"}
    THEN SignalScoresGet(Strip(Lower(sig.chars)), 0)
    ELSE 0

LowerToUpper(c) ==
    IF \E u \in DOMAIN UpperToLower : UpperToLower[u] = c
    THEN CHOOSE u \in DOMAIN UpperToLower : UpperToLower[u] = c
    ELSE c

\* The spellings of a word: as given, in capitals, capitalised.
Spellings(word) ==
    { word,
      [i \in 1..Len(word) |-> LowerToUpper(word[i])],
      [i \in 1..Len(word) |-> IF i = 1 THEN LowerToUpper(word[i]) ELSE word[i]] }

\* Strings that are no grade: empty, a letter too many, a letter missing,
\* whitespace inside, a blank for the underscore.
OtherWords ==
    { << >>,
      << "b", "u", "y", "y" >>,
      << "b", "y" >>,
      << "s", "e", " ", "l", "l" >>,
      << "s", "t", "r", "o", "n", "g", " ", "b", "u", "y" >> }

Pads == UNION { [1..n -> {" ", "\t"}] : n \in 0..MaxPad }

SignalInputs ==
    { [type |-> "str", chars |-> l \o w \o r] :
          l \in Pads, r \in Pads,
          w \in UNION { Spellings(word) : word \in SignalStrength \cup OtherWords } }
        \cup { [type |-> "enum", chars |-> m] : m \in SignalStrength }
        \cup { [type |-> "None", chars |-> << >>], [type |-> "int", chars |-> << >>] }

InitSignal ==
    /\ sigPc = "start"
    /\ signal \in SignalInputs
    /\ signal_score = 0
    /\ IdleCall
    /\ IdleFan
    /\ IdleDecision
    /\ IdleLinear
    /\ IdleConfig
    /\ IdleTicker
    /\ IdleLate

SignalToScore ==
    /\ sigPc = "start"
    /\ signal_score' = signal_to_score(signal)
    /\ sigPc' = "done"
    /\ UNCHANGED signal
    /\ UNCHANGED << callVars, fanVars, decVars, linVars, cfgVars, tkVars, lateVars >>

NextSignal == SignalToScore

SignalSpec == InitSignal /\ [][NextSignal]_vars

(***************************************************************************)
(* lookup_ticker                                                           *)
(***************************************************************************)
\* A string is a sequence of characters; a Hangul syllable is one character,
\* written here as two or more Latin letters ("seul"), which no pattern or
\* case rule touches.

\* Most quotes in one answer of the provider's search.
MaxQuotes == 2

DigitChars == {"0", "1", "2", "3", "4", "5", "6", "7", "8", "9"}

UpperChars == DOMAIN UpperToLower

UpperChar(c) ==
    IF \E u \in UpperChars : UpperToLower[u] = c
    THEN CHOOSE u \in UpperChars : UpperToLower[u] = c
    ELSE c

\* str.upper()
Upper(chars) == [i \in 1..Len(chars) |-> UpperChar(chars[i])]

\* str.endswith(suffix)
EndsWith(chars, suffix) ==
    /\ Len(suffix) <= Len(chars)
    /\ SubSeq(chars, Len(chars) - Len(suffix) + 1, Len(chars)) = suffix

EndsWithAny(chars, suffixes) == \E suffix \in suffixes : EndsWith(chars, suffix)

\* The suffixes of _clean_query, in the order of the list.
CleanSuffixes ==
    << << "bun", "seok", "hae", "jwo" >>,
       << "bun", "seok", "hae", "ju", "se", "yo" >>,
       << "bun", "seok", "hae" >>,
       << "bun", "seok", "ha", "gi" >>,
       << "bun", "seok" >>,
       << "al", "lyeo", "jwo" >>,
       << "al", "lyeo", "ju", "se", "yo" >>,
       << "jo", "hoe", "hae", "jwo" >>,
       << "jo", "hoe", "hae" >>,
       << "jo", "hoe" >>,
       << "geom", "saek", "hae", "jwo" >>,
       << "geom", "saek", "hae" >>,
       << "geom", "saek" >>,
       << "chaj", "ah", "jwo" >>,
       << "chaj", "ah" >>,
       << "bo", "yeo", "jwo" >>,
       << "bo", "yeo", "ju", "se", "yo" >> >>

RECURSIVE StripSuffix(_, _)
\* The loop of _clean_query: the first suffix of the list the text ends
\* with is cut off, and the rest stripped again.
StripSuffix(cleaned, i) ==
    IF i > Len(CleanSuffixes) THEN cleaned
    ELSE IF EndsWith(cleaned, CleanSuffixes[i])
         THEN Strip(SubSeq(cleaned, 1, Len(cleaned) - Len(CleanSuffixes[i])))
         ELSE StripSuffix(cleaned, i + 1)

_clean_query(query) == StripSuffix(Strip(query), 1)

\* re.match(r"^\d{6}\.(KS|KQ)$", cleaned)
IsKrTicker(chars) ==
    /\ Len(chars) = 9
    /\ \A i \in 1..6 : chars[i] \in DigitChars
    /\ chars[7] = "."
    /\ chars[8] = "K"
    /\ chars[9] \in {"S", "Q"}

\* cleaned.isdigit() and len(cleaned) == 6
IsSixDigits(chars) ==
    /\ Len(chars) = 6
    /\ \A i \in 1..6 : chars[i] \in DigitChars

\* re.match(r"^[A-Z]{1,5}(-[A-Z])?$", text)
IsUsTicker(chars) ==
    LET n == Len(chars)
    IN \/ /\ n \in 1..5
          /\ \A i \in 1..n : chars[i] \in UpperChars
       \/ /\ n \in 3..7
          /\ chars[n - 1] = "-"
          /\ chars[n] \in UpperChars
          /\ \A i \in 1..(n - 2) : chars[i] \in UpperChars

\* Entries of _US_NAME_MAP: a Hangul name, names in capitals, a ticker
\* with a class suffix.
_US_NAME_MAP ==
    { [key |-> << "te", "seul", "la" >>, ticker |-> << "T", "S", "L", "A" >>],
      [key |-> << "I", "B", "M" >>, ticker |-> << "I", "B", "M" >>],
      [key |-> << "3", "M" >>, ticker |-> << "M", "M", "M" >>],
      [key |-> << "beo", "keu", "syeo", "hae", "seo", "we", "yi" >>,
       ticker |-> << "B", "R", "K", "-", "B" >>] }

\* Entries of _KR_NAME_MAP: a Hangul name, a name in capitals.
_KR_NAME_MAP ==
    { [key |-> << "sam", "seong", "jeon", "ja" >>, name |-> "Samsung Electronics"],
      [key |-> << "S", "K", "ha", "yi", "nik", "seu" >>, name |-> "SK Hynix"],
      [key |-> << "K", "T" >>, name |-> "KT Corp"] }

\* _US_NAME_MAP.get(cleaned) or _US_NAME_MAP_LOWER.get(cleaned.lower());
\* the empty string stands for None.
UsAlias(cleaned) ==
    IF \E e \in _US_NAME_MAP : e.key = cleaned
    THEN (CHOOSE e \in _US_NAME_MAP : e.key = cleaned).ticker
    ELSE IF \E e \in _US_NAME_MAP : Lower(e.key) = Lower(cleaned)
         THEN (CHOOSE e \in _US_NAME_MAP : Lower(e.key) = Lower(cleaned)).ticker
         ELSE << >>

\* _KR_NAME_MAP_LOWER.get(cleaned.lower()) or, failing that, cleaned when it
\* is a key of _KR_NAME_MAP; the empty string when neither.
KrAlias(cleaned) ==
    IF \E e \in _KR_NAME_MAP : Lower(e.key) = Lower(cleaned)
    THEN (CHOOSE e \in _KR_NAME_MAP : Lower(e.key) = Lower(cleaned)).key
    ELSE << >>

\* The US exchange codes of lines 159 and 349.
UsExchanges == {"NMS", "NYQ", "NGM", "NCM", "NAS", "NYSE", "NASDAQ"}

KrSuffixes == { << ".", "K", "S" >>, << ".", "K", "Q" >> }

\* The suffixes of line 358: markets that are neither Korean nor US.
OtherSuffixes ==
    { << ".", "T" >>, << ".", "H", "K" >>, << ".", "L" >>, << ".", "P", "A" >>,
      << ".", "D", "E" >> }

\* What yf.Ticker(t).info does: it raises, or it answers a quote with or
\* without a regularMarketPrice.
InfoOutcomes == {"raises", "priced", "unpriced"}

\* Quotes the provider's search answers with.
Quotes ==
    { [symbol |-> << "0", "0", "5", "9", "3", "0", ".", "K", "S" >>, exchange |-> "KSC"],
      [symbol |-> << "T", "S", "L", "A" >>, exchange |-> "NMS"],
      [symbol |-> << "7", "2", "0", "3", ".", "T" >>, exchange |-> "JPX"],
      [symbol |-> << "T", "L", "0" >>, exchange |-> "PNK"] }

\* Lists of at most MaxQuotes quotes, no symbol listed twice.
QuoteLists ==
    { qs \in UNION { [1..n -> Quotes] : n \in 0..MaxQuotes } :
        \A i, j \in 1..Len(qs) : qs[i] = qs[j] => i = j }

\* What yf.Search(q).quotes does: it raises, or it answers a list of quotes.
SearchOutcomes ==
    { [raises |-> TRUE, quotes |-> << >>] }
        \cup { [raises |-> FALSE, quotes |-> qs] : qs \in QuoteLists }

\* The answers of the provider to the calls of one lookup, in call order:
\* the first and the second quote lookup, the search of lookup_kr_ticker,
\* the search of step 6.
Providers ==
    [info1 : InfoOutcomes, info2 : InfoOutcomes, kr_search : SearchOutcomes,
     search : SearchOutcomes]

RECURSIVE FirstKrSymbol(_)
\* Lines 193-196: the first symbol that ends with .KS or .KQ, else None
\* (the empty string).
FirstKrSymbol(quotes) ==
    IF quotes = << >> THEN << >>
    ELSE IF EndsWithAny(Head(quotes).symbol, KrSuffixes) THEN Head(quotes).symbol
         ELSE FirstKrSymbol(Tail(quotes))

\* lookup_kr_ticker for a key of _KR_NAME_MAP: the key is no code, so the
\* English name is searched; an exception gives None.
lookup_kr_ticker(company_name, outcome) ==
    IF IsSixDigits(Strip(company_name)) THEN Strip(company_name) \o << ".", "K", "S" >>
    ELSE IF IsKrTicker(Strip(company_name)) THEN Strip(company_name)
    ELSE IF outcome.raises THEN << >>
    ELSE FirstKrSymbol(outcome.quotes)

Found(ticker, market, tried, caught) ==
    [status |-> "success", ticker |-> ticker, market |-> market, tried |-> tried,
     caught |-> caught]

NotFound(tried, caught) ==
    [status |-> "error", ticker |-> << >>, market |-> "", tried |-> tried,
     caught |-> caught]

\* An exception that leaves lookup_ticker: no dict is returned.
Raised(tried, caught) ==
    [status |-> "raised", ticker |-> << >>, market |-> "", tried |-> tried,
     caught |-> caught]

RECURSIVE SearchStep(_, _, _)
\* Lines 334-364: the first quote that is Korean by its suffix, US by its
\* exchange, or of no other known market decides; else not found.
SearchStep(quotes, tried, caught) ==
    IF quotes = << >> THEN NotFound(tried, caught)
    ELSE LET symbol == Head(quotes).symbol
             exchange == Head(quotes).exchange
         IN IF EndsWithAny(symbol, KrSuffixes) THEN Found(symbol, "KR", tried, caught)
            ELSE IF exchange \in UsExchanges THEN Found(symbol, "US", tried, caught)
            ELSE IF ~EndsWithAny(symbol, OtherSuffixes)
                 THEN Found(symbol, "US", tried, caught)
                 ELSE SearchStep(Tail(quotes), tried, caught)

\* Step 6 with the search outside any try block: its exception leaves the
\* function.
Step6_unguarded(env, tried, caught) ==
    IF env.search.raises THEN Raised(tried \cup {"search"}, caught)
    ELSE SearchStep(env.search.quotes, tried \cup {"search"}, caught)

\* Step 6 (lines 331-368): the fallback search; its exception is caught at
\* line 365 and the not-found result of line 368 follows.
Step6(env, tried, caught) ==
    IF env.search.raises
    THEN NotFound(tried \cup {"search"}, caught \cup {"search"})
    ELSE SearchStep(env.search.quotes, tried \cup {"search"}, caught)

\* Step 5 (lines 313-329): a key of _KR_NAME_MAP is resolved by
\* lookup_kr_ticker, and its ticker returned whether the quote lookup raises
\* (line 328) or not; without a ticker the search of step 6 follows.
Step5(cleaned, env, tried, caught) ==
    IF KrAlias(cleaned) = << >> THEN Step6(env, tried \cup {"alias"}, caught)
    ELSE LET kr_ticker == lookup_kr_ticker(KrAlias(cleaned), env.kr_search)
             kr_caught == IF env.kr_search.raises THEN caught \cup {"kr_search"}
                          ELSE caught
         IN IF kr_ticker # << >>
            THEN Found(kr_ticker, "KR", tried \cup {"alias"},
                       IF env.info2 = "raises" THEN kr_caught \cup {"alias"}
                       ELSE kr_caught)
            ELSE Step6(env, tried \cup {"alias"}, kr_caught)

\* Step 4 (lines 297-311): a key of _US_NAME_MAP gives its ticker, whether
\* the quote lookup raises (line 310) or not.
Step4(cleaned, env, tried, caught) ==
    IF UsAlias(cleaned) # << >>
    THEN Found(UsAlias(cleaned), "US", tried \cup {"alias"},
               IF env.info2 = "raises" THEN caught \cup {"alias"} ELSE caught)
    ELSE Step5(cleaned, env, tried, caught)

\* Step 3 (lines 281-295): a US ticker pattern is accepted when its quote
\* has a price; otherwise, and on an exception (line 294), the later steps
\* follow.
Step3(cleaned, env, tried, caught) ==
    IF IsUsTicker(Upper(cleaned))
    THEN IF env.info1 = "priced"
         THEN Found(Upper(cleaned), "US", tried \cup {"us_pattern"}, caught)
         ELSE Step4(cleaned, env, tried \cup {"us_pattern"},
                    IF env.info1 = "raises" THEN caught \cup {"us_pattern"}
                    ELSE caught)
    ELSE Step4(cleaned, env, tried, caught)

\* Step 2 (lines 253-279): six digits are tried with .KS, then with .KQ;
\* without a priced quote, and on an exception (line 277), the result is
\* not found.
Step2(cleaned, env) ==
    IF env.info1 = "priced"
    THEN Found(cleaned \o << ".", "K", "S" >>, "KR", {"code"}, {})
    ELSE IF env.info1 = "raises" THEN NotFound({"code"}, {"code"})
    ELSE IF env.info2 = "priced"
         THEN Found(cleaned \o << ".", "K", "Q" >>, "KR", {"code"}, {})
    ELSE IF env.info2 = "raises" THEN NotFound({"code"}, {"code"})
    ELSE NotFound({"code"}, {})

\* Step 1 (lines 239-251): a canonical domestic ticker is returned as it
\* is, whether the quote lookup raises (line 250) or not.
Step1(cleaned, env) ==
    Found(cleaned, "KR", {"canonical"},
          IF env.info1 = "raises" THEN {"canonical"} ELSE {})

\* lookup_ticker: the status, ticker and market of the returned dict, with
\* the steps that were tried and the steps whose exception was caught.
lookup_ticker(query, env) ==
    LET cleaned == _clean_query(query)
    IN IF IsKrTicker(cleaned) THEN Step1(cleaned, env)
       ELSE IF IsSixDigits(cleaned) THEN Step2(cleaned, env)
       ELSE Step3(cleaned, env, {}, {})

\* Queries: canonical and bare codes, tickers in either case and with a
\* class suffix, names of both alias tables, names in other case, free
\* text, a name followed by a verb, padded and empty strings.
Queries ==
    { << "0", "0", "5", "9", "3", "0", ".", "K", "S" >>,
      << "0", "3", "5", "7", "2", "0", ".", "K", "Q" >>,
      << "0", "0", "5", "9", "3", "0" >>,
      << "A", "A", "P", "L" >>,
      << "t", "s", "l", "a" >>,
      << "B", "R", "K", "-", "B" >>,
      << "I", "B", "M" >>,
      << "3", "m" >>,
      << "K", "T" >>,
      << "te", "seul", "la" >>,
      << "sam", "seong", "jeon", "ja" >>,
      << "s", "k", "ha", "yi", "nik", "seu" >>,
      << "T", "e", "s", "l", "a", " ", "I", "n", "c" >>,
      << "te", "seul", "la", " ", "bun", "seok", "hae", "jwo" >>,
      << " ", "0", "0", "5", "9", "3", "0", " ", "jo", "hoe" >>,
      << >> }

InitTicker ==
    /\ tkPc = "start"
    /\ tkQuery \in Queries
    /\ tkFirst = NoLookup
    /\ tkSecond = NoLookup
    /\ IdleCall
    /\ IdleFan
    /\ IdleDecision
    /\ IdleSignal
    /\ IdleLinear
    /\ IdleConfig
    /\ IdleLate

\* lookup_ticker(query), the provider answering as it likes.
LookupTicker ==
    /\ tkPc = "start"
    /\ \E env \in Providers : tkFirst' = lookup_ticker(tkQuery, env)
    /\ tkPc' = "first"
    /\ UNCHANGED << tkQuery, tkSecond >>
    /\ UNCHANGED << callVars, fanVars, decVars, sigVars, linVars, cfgVars, lateVars >>

\* lookup_ticker on the ticker a successful lookup returned, the provider
\* again answering as it likes.
LookupAgain ==
    /\ tkPc = "first"
    /\ tkFirst.status = "success"
    /\ \E env \in Providers : tkSecond' = lookup_ticker(tkFirst.ticker, env)
    /\ tkPc' = "second"
    /\ UNCHANGED << tkQuery, tkFirst >>
    /\ UNCHANGED << callVars, fanVars, decVars, sigVars, linVars, cfgVars, lateVars >>

NextTicker ==
    \/ LookupTicker
    \/ LookupAgain

TickerSpec == InitTicker /\ [][NextTicker]_vars

(***************************************************************************)
(* calculate_position_size (sub_agents/risk_agent/tools.py).  Prices and   *)
(* the ATR are in thousandths, the account balance in whole units, the     *)
(* risk per trade in ten-thousandths, returned amounts in hundredths.      *)
(***************************************************************************)
\* Rows of price history beyond the 14 the ATR window needs.
MaxExtraRows == 1

\* int(num / den) for den > 0: Python's int() truncates toward zero.
PyInt(num, den) == IF num >= 0 THEN num \div den ELSE -((-num) \div den)

\* round(num / den, 0) for den > 0, a tie going to the even neighbour.
RoundDiv(num, den) ==
    LET q == num \div den
        r == num % den
    IN IF 2 * r < den THEN q
       ELSE IF 2 * r > den THEN q + 1
       ELSE IF q % 2 = 0 THEN q ELSE q + 1

\* round(x, 2) of a value given in thousandths.
Round2(n) == RoundDiv(n, 10)

\* Lines 31-33: a six-digit code on the KR market gets the .KS suffix.
SizingTicker(ticker, market) ==
    IF market = "KR" /\ ~EndsWithAny(ticker, KrSuffixes) /\ IsSixDigits(ticker)
    THEN ticker \o << ".", "K", "S" >>
    ELSE ticker

\* Lines 39-44 and 112-118: the error results.
SizingError(ticker, market, error) ==
    [status |-> "error", ticker |-> ticker, market |-> market, error |-> error]

\* Lines 72-76 without the minimum of one share.
CappedSize_no_minimum(by_risk, by_value) == Min(by_risk, by_value)

\* Lines 72-76 with the minimum of one share applied before the cap.
CappedSize_minimum_first(by_risk, by_value) == Min(Max(1, by_risk), by_value)

\* Lines 72-76: the size by risk, capped by the size by value, at least 1.
CappedSize(by_risk, by_value) == Max(1, Min(by_risk, by_value))

\* Lines 83-90: the risk tier from the volatility in percent.
SizingRiskLevel(atr, current_price) ==
    IF atr * 100 > 5 * current_price THEN "high"
    ELSE IF atr * 1000 > 25 * current_price THEN "medium"
    ELSE "low"

\* calculate_position_size.  hist is what stock.history answered: it raises,
\* or it is a frame of hist.rows rows whose last close is hist.price (NaN
\* when hist.price_nan) and whose ATR is hist.atr; with fewer than 14 rows
\* the rolling mean is NaN.  int() of a NaN raises ValueError, a division
\* by 0.0 raises ZeroDivisionError; both are caught at line 112.
calculate_position_size(ticker, market, account_balance, risk_per_trade, hist) ==
    LET sized == SizingTicker(ticker, market)
        atr == hist.atr
        current_price == hist.price
        stop_loss_distance == 2 * atr
        take_profit_distance == 3 * atr
        by_risk == PyInt(account_balance * risk_per_trade, 10 * stop_loss_distance)
        by_value == PyInt(account_balance * 200, current_price)
        position_size == CappedSize(by_risk, by_value)
    IN IF hist.raises THEN SizingError(sized, market, "history")
       ELSE IF hist.rows = 0 THEN SizingError(sized, market, "no price data")
       ELSE IF hist.rows < 14 THEN SizingError(sized, market, "ValueError")
       ELSE IF atr = 0 THEN SizingError(sized, market, "ZeroDivisionError")
       ELSE IF hist.price_nan THEN SizingError(sized, market, "ValueError")
       ELSE IF current_price = 0 THEN SizingError(sized, market, "ZeroDivisionError")
       ELSE [status |-> "success",
             ticker |-> sized,
             market |-> market,
             current_price |-> Round2(current_price),
             atr_14 |-> Round2(atr),
             volatility_pct |-> RoundDiv(atr * 10000, current_price),
             position_size |-> position_size,
             stop_loss_price |-> Round2(current_price - stop_loss_distance),
             take_profit_price |-> Round2(current_price + take_profit_distance),
             investment_amount |-> Round2(position_size * current_price),
             max_loss_amount |-> Round2(position_size * stop_loss_distance),
             risk_level |-> SizingRiskLevel(atr, current_price),
             risk_reward_ratio |-> RoundDiv(take_profit_distance * 100,
                                            stop_loss_distance),
             confidence |-> IF hist.rows >= 60 THEN 80 ELSE 50]

\* Arguments: a code and a symbol, both markets, balances and risks that
\* are negative, zero and positive.
SizingArgs ==
    [ticker : { << "0", "0", "5", "9", "3", "0" >>, << "A", "A", "P", "L" >> },
     market : {"KR", "US"},
     account_balance : {-1000, 0, 1, 1000, 100000},
     risk_per_trade : {-200, 0, 200, 5000}]

\* Price histories: none, too short for the ATR window, long enough.
Histories ==
    { [raises |-> TRUE, rows |-> 0, price |-> 0, price_nan |-> FALSE, atr |-> 0] }
        \cup [raises : {FALSE},
              rows : {0, 1} \cup 13..(14 + MaxExtraRows) \cup {60},
              price : {0, 500, 21000, 250000},
              price_nan : BOOLEAN,
              atr : {0, 1, 333, 5000, 12346}]

InitPosition ==
    /\ position \in [pc : {"start"}, args : SizingArgs, hist : Histories,
                     result : {NoResult}]
    /\ IdleCall
    /\ IdleFan
    /\ IdleDecision
    /\ IdleSignal
    /\ IdleLinear
    /\ IdleConfig
    /\ IdleTicker
    /\ IdleExchange
    /\ IdlePromptUpdate
    /\ IdleRedis

CalculatePositionSize ==
    /\ position.pc = "start"
    /\ position' =
           [position EXCEPT
               !.pc = "done",
               !.result = calculate_position_size(
                              position.args.ticker, position.args.market,
                              position.args.account_balance,
                              position.args.risk_per_trade, position.hist)]
    /\ UNCHANGED << callVars, fanVars, decVars, sigVars, linVars, cfgVars, tkVars >>
    /\ UNCHANGED << middleware, prompt_update, redis >>

NextPosition == CalculatePositionSize

PositionSpec == InitPosition /\ [][NextPosition]_vars

(***************************************************************************)
(* A2ALoggingMiddleware (shared/middleware.py).  Bytes are sequences of    *)
(* tokens; json.loads of a body is given with the body.                    *)
(***************************************************************************)
\* Most http.request messages the body of a request arrives in.
MaxChunks == 2

\* The exception of obj[0].get(...) for a truthy obj, "none" when it can be
\* evaluated: a list whose first item is no dict and a str have no .get, a
\* dict has no key 0, a number cannot be subscripted.
FirstGetRaises(obj) ==
    CASE obj.k = "list" -> IF IsDict(obj.v[1]) THEN "none" ELSE "AttributeError"
      [] obj.k = "str"  -> "AttributeError"
      [] obj.k = "dict" -> "KeyError"
      [] OTHER          -> "TypeError"

\* Whether text[:n] raises for a truthy text: a number and a dict cannot be
\* sliced.
SliceRaises(text) == Truthy(text) /\ text.k \in {"num", "dict"}

\* _safe_json_parse (lines 135-140): json.loads(data), or {} when it raises
\* JSONDecodeError or UnicodeDecodeError.
_safe_json_parse(data) == IF data.decode = "ok" THEN data.json ELSE EmptyDict

\* The exceptions _extract_message_text catches (line 148).
MessageTextCaught == {"KeyError", "IndexError", "AttributeError"}

\* _extract_message_text (lines 142-149) of a dict.
_extract_message_text(req_data) ==
    LET params == DictGet(req_data, "params", EmptyDict)
        message == DictGet(params, "message", EmptyDict)
        parts == DictGet(message, "parts", EmptyList)
        exc == IF ~IsDict(params) \/ ~IsDict(message) THEN "AttributeError"
               ELSE IF ~Truthy(parts) THEN "none"
               ELSE FirstGetRaises(parts)
    IN IF exc = "none"
       THEN Return(IF Truthy(parts) THEN DictGet(parts.v[1], "text", EmptyStr)
                   ELSE EmptyStr)
       ELSE IF exc \in MessageTextCaught THEN Return(EmptyStr)
       ELSE Raise(Exc(exc))

\* Lines 44-58: what the middleware does with the request body between
\* _read_body and the call of the application: the rpc method, or the
\* exception that leaves __call__.
InspectRequest(request_body) ==
    LET req_data == _safe_json_parse(request_body)
    IN IF ~IsDict(req_data) THEN Raise(Exc("AttributeError"))
       ELSE LET message_text == _extract_message_text(req_data)
            IN IF message_text.raised THEN message_text
               ELSE IF SliceRaises(message_text.val) THEN Raise(Exc("TypeError"))
               ELSE Return(DictGet(req_data, "method", JStr(<< "unknown" >>)))

\* The exceptions the middleware's _extract_response_text catches (line 173).
ResponseTextCaught == {"JSONDecodeError", "KeyError", "IndexError", "AttributeError"}

\* The fallback of lines 165-170: result.status.message.parts[0].text.
StatusMessageText(result) ==
    LET status == DictGet(result, "status", EmptyDict)
        status_msg == DictGet(status, "message", EmptyDict)
        parts == DictGet(status_msg, "parts", EmptyList)
    IN IF ~IsDict(status) THEN Raise(Exc("AttributeError"))
       ELSE IF ~IsDict(status_msg) \/ ~Truthy(parts) THEN Return(EmptyStr)
       ELSE IF FirstGetRaises(parts) # "none" THEN Raise(Exc(FirstGetRaises(parts)))
       ELSE Return(DictGet(parts.v[1], "text", EmptyStr))

\* Lines 154-172, before the except clause.
ResponseTextOf(body) ==
    IF body.decode # "ok" THEN Raise(Exc(body.decode))
    ELSE IF ~IsDict(body.json) THEN Raise(Exc("AttributeError"))
    ELSE LET result == DictGet(body.json, "result", EmptyDict)
             artifacts == DictGet(result, "artifacts", EmptyList)
             parts == DictGet(artifacts.v[1], "parts", EmptyList)
             text == DictGet(parts.v[1], "text", EmptyStr)
         IN IF ~IsDict(result) THEN Raise(Exc("AttributeError"))
            ELSE IF ~Truthy(artifacts) THEN StatusMessageText(result)
            ELSE IF FirstGetRaises(artifacts) # "none"
                 THEN Raise(Exc(FirstGetRaises(artifacts)))
            ELSE IF ~Truthy(parts) THEN StatusMessageText(result)
            ELSE IF FirstGetRaises(parts) # "none"
                 THEN Raise(Exc(FirstGetRaises(parts)))
            ELSE IF Truthy(text) THEN Return(text)
            ELSE StatusMessageText(result)

\* The middleware's _extract_response_text (lines 150-174): the caught
\* exceptions give a preview of the body, a str.
MiddlewareResponseText(body) ==
    LET text == ResponseTextOf(body)
    IN IF text.raised /\ text.exc.type \in ResponseTextCaught
       THEN Return(JStr(body.bytes))
       ELSE text

\* Lines 91-106: what the middleware does after the application returned:
\* "none", or the class of the exception that leaves __call__.
InspectResponse(full_body) ==
    LET response_text == MiddlewareResponseText(full_body)
    IN IF response_text.raised THEN response_text.exc.type
       ELSE IF SliceRaises(response_text.val) THEN "TypeError"
       ELSE "none"

\* The paths of the JSON-RPC endpoint (line 38).
RpcPaths == {"/", "", "/adk/", "/adk"}

Scopes ==
    { [type |-> "http", method |-> "POST", path |-> "/"],
      [type |-> "http", method |-> "POST", path |-> "/adk"],
      [type |-> "http", method |-> "POST", path |-> "/api/weights"],
      [type |-> "http", method |-> "GET", path |-> "/"],
      [type |-> "websocket", method |-> "", path |-> "/"] }

\* params.message.parts[0].text = text
TextParams(text) ==
    JDict([message |-> JDict([parts |-> JList(<< JDict([text |-> text]) >>)])])

Body(bytes, decode, json) == [bytes |-> bytes, decode |-> decode, json |-> json]

\* Request bodies: JSON-RPC objects (message/send, message/stream, another
\* method, a text that is a number, parts that are a number, params that
\* are a list), JSON that is no object (a batch array, null), bytes that
\* are no JSON, bytes that are no UTF-8, no bytes.
RequestBodies ==
    { Body(<< "{", "send hi", "}" >>, "ok",
           JDict([method |-> JStr(<< "message/send" >>),
                  params |-> TextParams(JStr(<< "hi" >>))])),
      Body(<< "{", "stream hi", "}" >>, "ok",
           JDict([method |-> JStr(<< "message/stream" >>),
                  params |-> TextParams(JStr(<< "hi" >>))])),
      Body(<< "{", "tasks/get", "}" >>, "ok",
           JDict([method |-> JStr(<< "tasks/get" >>)])),
      Body(<< "{", "send 5", "}" >>, "ok",
           JDict([method |-> JStr(<< "message/send" >>),
                  params |-> TextParams(JNum(5))])),
      Body(<< "{", "send parts 7", "}" >>, "ok",
           JDict([method |-> JStr(<< "message/send" >>),
                  params |-> JDict([message |-> JDict([parts |-> JNum(7)])])])),
      Body(<< "{", "send params []", "}" >>, "ok",
           JDict([method |-> JStr(<< "message/send" >>), params |-> EmptyList])),
      Body(<< "[", "send hi", "]" >>, "ok",
           JList(<< JDict([method |-> JStr(<< "message/send" >>),
                           params |-> TextParams(JStr(<< "hi" >>))]) >>)),
      Body(<< "null" >>, "ok", JNull),
      Body(<< "not", "json" >>, "JSONDecodeError", JNull),
      Body(<< "0xff", "0xfe" >>, "UnicodeDecodeError", JNull),
      Body(<< >>, "JSONDecodeError", JNull) }

\* result.artifacts[0].parts[0].text = text
ArtifactResult(text) ==
    JDict([result |->
        JDict([artifacts |-> JList(<< JDict([parts |-> JList(<< JDict([text |-> text]) >>)]) >>)])])

\* Response bodies of the application: a result with a text, with a text
\* that is a number, with artifacts that are a number, an error object,
\* bytes that are no JSON, bytes that are no UTF-8.
ResponseBodies ==
    { Body(<< "{", "result ok", "}" >>, "ok", ArtifactResult(JStr(<< "ok" >>))),
      Body(<< "{", "result 5", "}" >>, "ok", ArtifactResult(JNum(5))),
      Body(<< "{", "artifacts 3", "}" >>, "ok",
           JDict([result |-> JDict([artifacts |-> JNum(3)])])),
      Body(<< "{", "error", "}" >>, "ok", JDict([error |-> JStr(<< "bad" >>)])),
      Body(<< "Internal", "Server", "Error" >>, "JSONDecodeError", JNull),
      Body(<< "0xff", "0xfe" >>, "UnicodeDecodeError", JNull) }

RECURSIVE Chunkings(_, _)
\* The ways bytes are cut into at most n chunks, in order.
Chunkings(bytes, n) ==
    IF n = 1 THEN { << bytes >> }
    ELSE Chunkings(bytes, n - 1)
           \cup UNION { { << SubSeq(bytes, 1, i) >> \o rest :
                            rest \in Chunkings(SubSeq(bytes, i + 1, Len(bytes)), n - 1) } :
                        i \in 0..Len(bytes) }

\* The http.request messages of a body that arrives in the given chunks.
RequestMessages(chunks) ==
    [i \in 1..Len(chunks) |->
        [type |-> "http.request", status |-> 0, body |-> chunks[i],
         more_body |-> i < Len(chunks)]]

\* The messages of a response: the start, then the body in the given chunks.
ResponseMessages(chunks) ==
    << [type |-> "http.response.start", status |-> 200, body |-> << >>,
        more_body |-> FALSE] >>
      \o [i \in 1..Len(chunks) |->
            [type |-> "http.response.body", status |-> 0, body |-> chunks[i],
             more_body |-> i < Len(chunks)]]

InitMiddleware ==
    /\ \E scope \in Scopes, req \in RequestBodies, resp \in ResponseBodies :
         \E inbound \in Chunkings(req.bytes, MaxChunks),
            outbound \in Chunkings(resp.bytes, MaxChunks) :
           middleware =
               [pc |-> "call", scope |-> scope, request |-> req,
                inbound |-> RequestMessages(inbound), request_body |-> << >>,
                mode |-> "none", body_sent |-> FALSE,
                app_reading |-> TRUE, app_received |-> << >>,
                response |-> resp, all_responses |-> ResponseMessages(outbound),
                outbox |-> ResponseMessages(outbound),
                forwarded |-> << >>, response_parts |-> << >>, raised |-> "none"]
    /\ IdleCall
    /\ IdleFan
    /\ IdleDecision
    /\ IdleSignal
    /\ IdleLinear
    /\ IdleConfig
    /\ IdleTicker
    /\ IdlePosition
    /\ IdlePromptUpdate
    /\ IdleRedis

\* Lines 29-40: a scope that is no POST to the endpoint goes to the
\* application with the caller's receive and send.
MiddlewareCall ==
    /\ middleware.pc = "call"
    /\ middleware' =
           IF \/ middleware.scope.type # "http"
              \/ middleware.scope.method # "POST"
              \/ middleware.scope.path \notin RpcPaths
           THEN [middleware EXCEPT !.pc = "app", !.mode = "pass"]
           ELSE [middleware EXCEPT !.pc = "read"]
    /\ UNCHANGED << callVars, fanVars, decVars, sigVars, linVars, cfgVars, tkVars >>
    /\ UNCHANGED << position, prompt_update, redis >>

\* One await receive() of _read_body (lines 122-133); after the last chunk
\* the body is parsed and logged (lines 44-58) and the application called
\* with the wrappers (lines 74-89 or 109).
ReadBody ==
    /\ middleware.pc = "read"
    /\ middleware.inbound # << >>
    /\ LET message == Head(middleware.inbound)
           request_body == middleware.request_body \o message.body
           rpc_method == InspectRequest([middleware.request EXCEPT !.bytes = request_body])
       IN middleware' =
              IF message.more_body
              THEN [middleware EXCEPT !.inbound = Tail(@),
                                      !.request_body = request_body]
              ELSE IF rpc_method.raised
              THEN [middleware EXCEPT !.inbound = Tail(@),
                                      !.request_body = request_body,
                                      !.pc = "raised",
                                      !.raised = rpc_method.exc.type]
              ELSE [middleware EXCEPT
                       !.inbound = Tail(@),
                       !.request_body = request_body,
                       !.pc = "app",
                       !.mode = IF IsStr(rpc_method.val)
                                   /\ rpc_method.val.v = << "message/send" >>
                                THEN "send" ELSE "stream"]
    /\ UNCHANGED << callVars, fanVars, decVars, sigVars, linVars, cfgVars, tkVars >>
    /\ UNCHANGED << position, prompt_update, redis >>

\* The application awaits its receive: the caller's receive when passed
\* through, else receive_wrapper (lines 63-72), which replays the whole
\* body in one message.
AppReceive ==
    /\ middleware.pc = "app"
    /\ middleware.app_reading
    /\ \/ /\ middleware.mode = "pass"
          /\ middleware.inbound # << >>
          /\ middleware' =
                 [middleware EXCEPT
                     !.inbound = Tail(@),
                     !.app_received = @ \o Head(middleware.inbound).body,
                     !.app_reading = Head(middleware.inbound).more_body]
       \/ /\ middleware.mode \in {"send", "stream"}
          /\ ~middleware.body_sent
          /\ middleware' =
                 [middleware EXCEPT
                     !.body_sent = TRUE,
                     !.app_received = @ \o middleware.request_body,
                     !.app_reading = FALSE]
    /\ UNCHANGED << callVars, fanVars, decVars, sigVars, linVars, cfgVars, tkVars >>
    /\ UNCHANGED << position, prompt_update, redis >>

\* The application awaits its send: the caller's send, or send_wrapper
\* (lines 78-87), which keeps the body and calls the caller's send.
AppSend ==
    /\ middleware.pc = "app"
    /\ ~middleware.app_reading
    /\ middleware.outbox # << >>
    /\ LET message == Head(middleware.outbox)
       IN middleware' =
              [middleware EXCEPT
                  !.outbox = Tail(@),
                  !.forwarded = Append(@, message),
                  !.response_parts =
                      IF /\ middleware.mode = "send"
                         /\ message.type = "http.response.body"
                         /\ message.body # << >>
                      THEN @ \o message.body ELSE @]
    /\ UNCHANGED << callVars, fanVars, decVars, sigVars, linVars, cfgVars, tkVars >>
    /\ UNCHANGED << position, prompt_update, redis >>

\* The application returns; for message/send the captured body is parsed
\* and logged (lines 91-106).
AppReturn ==
    /\ middleware.pc = "app"
    /\ ~middleware.app_reading
    /\ middleware.outbox = << >>
    /\ LET full_body == [middleware.response EXCEPT !.bytes = middleware.response_parts]
           exc == IF middleware.mode = "send" THEN InspectResponse(full_body)
                  ELSE "none"
       IN middleware' =
              IF exc = "none" THEN [middleware EXCEPT !.pc = "done"]
              ELSE [middleware EXCEPT !.pc = "raised", !.raised = exc]
    /\ UNCHANGED << callVars, fanVars, decVars, sigVars, linVars, cfgVars, tkVars >>
    /\ UNCHANGED << position, prompt_update, redis >>

NextMiddleware ==
    \/ MiddlewareCall
    \/ ReadBody
    \/ AppReceive
    \/ AppSend
    \/ AppReturn

MiddlewareSpec == InitMiddleware /\ [][NextMiddleware]_vars

(***************************************************************************)
(* update_prompt and _notify_agent_reload (orchestrator/server.py)         *)
(***************************************************************************)
\* Most PUT /api/prompts requests of one run, one after the other.
MaxPrompts == 2

_AGENT_NAMES ==
    {"orchestrator", "news_agent", "fundamental_agent", "technical_agent",
     "expert_agent", "risk_agent"}

\* The keys of _SUB_AGENT_HOSTS.
_SUB_AGENT_HOSTS ==
    {"news_agent", "fundamental_agent", "technical_agent", "expert_agent",
     "risk_agent"}

\* Path parameters: two registered names and one that is not.
AgentNameParams == {"orchestrator", "risk_agent", "news_agent", "unknown_agent"}

\* Bodies: a prompt of 12 characters, another one, and one of 9 characters
\* between blanks.
PromptBodies ==
    { << "n", "e", "w", " ", "p", "r", "o", "m", "p", "t", " ", "A" >>,
      << "n", "e", "w", " ", "p", "r", "o", "m", "p", "t", " ", "B" >>,
      << " ", " ", "t", "o", "o", " ", "s", "h", "o", "r", "t", " ", " " >> }

\* How the POST to /reload ends: a status code, which is only logged, or an
\* exception of the client.
PostOutcomes == {"status 200", "status 500", "ConnectError", "ReadTimeout"}

InitPrompt ==
    /\ prompt_update =
           [pc |-> "idle", agent_name |-> "", prompt |-> << >>,
            prompts |-> [name \in _AGENT_NAMES |-> << >>],
            instruction |-> << >>, post |-> "none", attempts |-> 0,
            response |-> "none", requests |-> 0]
    /\ IdleCall
    /\ IdleFan
    /\ IdleDecision
    /\ IdleSignal
    /\ IdleLinear
    /\ IdleConfig
    /\ IdleTicker
    /\ IdlePosition
    /\ IdleExchange
    /\ IdleRedis

\* PUT /api/prompts/{agent_name} arrives (lines 277-285): the name and the
\* length are validated, then aset_prompt is awaited.
UpdatePrompt(agent_name, prompt) ==
    /\ prompt_update.pc \in {"idle", "done"}
    /\ prompt_update.requests < MaxPrompts
    /\ prompt_update' =
           [prompt_update EXCEPT
               !.requests = @ + 1,
               !.agent_name = agent_name,
               !.prompt = prompt,
               !.post = "none",
               !.attempts = 0,
               !.response = IF agent_name \notin _AGENT_NAMES THEN "404"
                            ELSE IF Len(Strip(prompt)) < 10 THEN "400"
                            ELSE "none",
               !.pc = IF agent_name \in _AGENT_NAMES /\ Len(Strip(prompt)) >= 10
                      THEN "aset_prompt" ELSE "done"]
    /\ UNCHANGED << callVars, fanVars, decVars, sigVars, linVars, cfgVars, tkVars >>
    /\ UNCHANGED << position, middleware, redis >>

\* aset_prompt returns (lines 285-293): the orchestrator's instruction is
\* replaced and the handler returns; for a peer _notify_agent_reload sends
\* its POST (lines 159-169) and the handler awaits it.
PromptStored ==
    /\ prompt_update.pc = "aset_prompt"
    /\ LET agent_name == prompt_update.agent_name
           stored == [prompt_update EXCEPT
                         !.prompts = [@ EXCEPT ![agent_name] = prompt_update.prompt]]
       IN prompt_update' =
              IF agent_name = "orchestrator"
              THEN [stored EXCEPT !.instruction = prompt_update.prompt,
                                  !.response = "updated", !.pc = "done"]
              ELSE IF agent_name \notin _SUB_AGENT_HOSTS
              THEN [stored EXCEPT !.response = "updated", !.pc = "done"]
              ELSE [stored EXCEPT !.post = "outstanding", !.attempts = @ + 1,
                                  !.pc = "await_post"]
    /\ UNCHANGED << callVars, fanVars, decVars, sigVars, linVars, cfgVars, tkVars >>
    /\ UNCHANGED << position, middleware, redis >>

\* aset_prompt raises (the store is unreachable): the request fails.
PromptStoreFails ==
    /\ prompt_update.pc = "aset_prompt"
    /\ prompt_update' = [prompt_update EXCEPT !.response = "500", !.pc = "done"]
    /\ UNCHANGED << callVars, fanVars, decVars, sigVars, linVars, cfgVars, tkVars >>
    /\ UNCHANGED << position, middleware, redis >>

\* An exception of the POST leaving _notify_agent_reload and the handler.
AfterPost_propagating(outcome) ==
    IF outcome \in {"ConnectError", "ReadTimeout"} THEN "500" ELSE "updated"

\* Lines 167-172 and 293: the status is logged without being looked at, an
\* exception is caught and logged; the handler returns status updated.
AfterPost(outcome) == "updated"

\* The POST ends: _notify_agent_reload returns and the handler returns.
PostSettles(outcome) ==
    /\ prompt_update.pc = "await_post"
    /\ prompt_update' =
           [prompt_update EXCEPT !.post = outcome, !.response = AfterPost(outcome),
                                 !.pc = "done"]
    /\ UNCHANGED << callVars, fanVars, decVars, sigVars, linVars, cfgVars, tkVars >>
    /\ UNCHANGED << position, middleware, redis >>

NextPrompt ==
    \/ \E agent_name \in AgentNameParams, prompt \in PromptBodies :
           UpdatePrompt(agent_name, prompt)
    \/ PromptStored
    \/ PromptStoreFails
    \/ \E outcome \in PostOutcomes : PostSettles(outcome)

PromptSpec == InitPrompt /\ [][NextPrompt]_vars

(***************************************************************************)
(* Properties of the fan-out                                               *)
(***************************************************************************)
IsReply(a, b) == a.kind = b.kind /\ JEq(a.body, b.body)

Settled(i) == replies[i].kind # "none"

\* The entry peer i must get for the reply it gave, written out per kind of
\* reply.
ExpectedEntry(i, reply) ==
    LET name == AGENT_CONFIG[i].name
    IN CASE reply.kind = "timeout" ->
               [status |-> "error", agent |-> name,
                error |-> << "Timeout after ", "90", ".0s" >>]
         [] reply.kind = "connect" ->
               [status |-> "error", agent |-> name,
                error |-> << "Connection refused: ", "http://localhost:",
                             AGENT_CONFIG[i].default_port, "/" >>]
         [] reply.kind = "other" ->
               [status |-> "error", agent |-> name, error |-> << "ReadError" >>]
         [] IsReply(reply, FanSuccess) ->
               [status |-> "success", agent |-> name, analysis |-> JStr(<< "a" >>)]
         [] IsReply(reply, FanRpcError) ->
               [status |-> "error", agent |-> name,
                error |-> << "{", "'", "code", "': ", "-32600", "}" >>]
         [] IsReply(reply, FanEmpty) ->
               [status |-> "error", agent |-> name, error |-> << "Empty response" >>]

SuccessNames == { n \in DOMAIN aggregate.agents : aggregate.agents[n].status = "success" }

\* C1: for every assignment of outcomes to the five peers, analyze_all_agents
\* returns an aggregate with exactly one entry per configured peer,
\* total_count 5 and success_count equal to the number of entries whose
\* status is success.
C1_AggregateComplete ==
    pc = "returned" =>
        /\ DOMAIN aggregate.agents = AgentNames
        /\ \A n \in AgentNames : aggregate.agents[n].status \in {"success", "error"}
        /\ aggregate.total_count = 5
        /\ aggregate.success_count = Cardinality(SuccessNames)

\* Two peers timed out, three succeeded: success_count = 3 of 5.
C1_Witness ==
    /\ pc = "returned"
    /\ Cardinality({ i \in AgentIndex : replies[i].kind = "timeout" }) = 2
    /\ Cardinality({ i \in AgentIndex : IsReply(replies[i], FanSuccess) }) = 3
    /\ aggregate.success_count = 3
    /\ aggregate.total_count = 5

\* C3: whatever the order in which the calls settle, a settled call has
\* written its own outcome into its own slot and nothing else, and the
\* returned agents map holds, under each peer's name, the entry determined by
\* that peer's reply alone.
C3_OrderIndependent ==
    /\ \A i \in AgentIndex :
          IF Settled(i)
          THEN ~results[i].raised /\ results[i].val = ExpectedEntry(i, replies[i])
          ELSE results[i] = Pending
    /\ pc = "returned" =>
          \A i \in AgentIndex :
              aggregate.agents[AGENT_CONFIG[i].name] = ExpectedEntry(i, replies[i])

\* The last configured peer settled first and failed while the first one is
\* still pending.
C3_WitnessLastFirst ==
    /\ pc = "gather"
    /\ replies[5].kind = "connect"
    /\ \A i \in 1..4 : ~Settled(i)
    /\ results[5].val.agent = "risk_agent"

\* A returned aggregate in which neighbouring peers have different outcomes.
C3_Witness ==
    /\ pc = "returned"
    /\ replies[1].kind = "timeout"
    /\ IsReply(replies[2], FanSuccess)
    /\ replies[5].kind = "connect"
    /\ aggregate.agents["news_agent"].status = "error"
    /\ aggregate.agents["fundamental_agent"].status = "success"

\* C4: once every call has a response or its timeout, analyze_all_agents
\* returns; a peer that timed out is recorded as a timeout error and the
\* peers that answered keep their success entries.
C4_TimeoutIsolated ==
    /\ (pc = "gather") ~> (pc = "returned")
    /\ [](pc = "returned" =>
            \A i \in AgentIndex :
                /\ replies[i].kind = "timeout" =>
                      aggregate.agents[AGENT_CONFIG[i].name] =
                          [status |-> "error", agent |-> AGENT_CONFIG[i].name,
                           error |-> << "Timeout after ", "90", ".0s" >>]
                /\ IsReply(replies[i], FanSuccess) =>
                      aggregate.agents[AGENT_CONFIG[i].name] =
                          [status |-> "success", agent |-> AGENT_CONFIG[i].name,
                           analysis |-> JStr(<< "a" >>)])

\* The slowest peer timed out and the four others answered.
C4_Witness ==
    /\ pc = "returned"
    /\ replies[3].kind = "timeout"
    /\ \A i \in AgentIndex \ {3} : IsReply(replies[i], FanSuccess)
    /\ aggregate.success_count = 4
    /\ aggregate.agents["technical_agent"].status = "error"

(***************************************************************************)
(* Properties of one call                                                  *)
(***************************************************************************)
CalledName == AGENT_CONFIG[callAgent].name

\* The envelope shapes of the protocol: an object whose result, if present,
\* is an object; artifacts a list of objects; status and status.message
\* objects; parts a list of objects; text a string.
PartsWellShaped(parts) ==
    /\ IsList(parts)
    /\ \A i \in 1..Len(parts.v) :
          /\ IsDict(parts.v[i])
          /\ "text" \in DOMAIN parts.v[i].v => IsStr(parts.v[i].v["text"])

ArtifactsWellShaped(artifacts) ==
    /\ IsList(artifacts)
    /\ \A i \in 1..Len(artifacts.v) :
          /\ IsDict(artifacts.v[i])
          /\ "parts" \in DOMAIN artifacts.v[i].v =>
                PartsWellShaped(artifacts.v[i].v["parts"])

StatusWellShaped(status) ==
    /\ IsDict(status)
    /\ "message" \in DOMAIN status.v =>
          /\ IsDict(status.v["message"])
          /\ "parts" \in DOMAIN status.v["message"].v =>
                PartsWellShaped(status.v["message"].v["parts"])

WellShaped(body) ==
    /\ IsDict(body)
    /\ "result" \in DOMAIN body.v =>
          /\ IsDict(body.v["result"])
          /\ "artifacts" \in DOMAIN body.v["result"].v =>
                ArtifactsWellShaped(body.v["result"].v["artifacts"])
          /\ "status" \in DOMAIN body.v["result"].v =>
                StatusWellShaped(body.v["result"].v["status"])

\* Navigation that yields null where the envelope has no such member.
Member(j, key) == IF IsDict(j) /\ key \in DOMAIN j.v THEN j.v[key] ELSE JNull

First(j) == IF IsList(j) /\ Len(j.v) > 0 THEN j.v[1] ELSE JNull

StringOf(j) == IF IsStr(j) THEN j.v ELSE << >>

\* The string at result.artifacts[0].parts[0].text, << >> when there is none.
ArtifactText(body) ==
    StringOf(Member(First(Member(First(Member(Member(body, "result"),
                                              "artifacts")),
                                 "parts")),
                    "text"))

\* The string at result.status.message.parts[0].text, << >> when there is
\* none.
StatusText(body) ==
    StringOf(Member(First(Member(Member(Member(Member(body, "result"),
                                               "status"),
                                        "message"),
                                 "parts")),
                    "text"))

\* The first non-empty of the two.
ReplyText(body) ==
    IF ArtifactText(body) # << >> THEN ArtifactText(body) ELSE StatusText(body)

HasTopLevelError(body) == IsDict(body) /\ "error" \in DOMAIN body.v

\* An error member at the top level or inside the result object.
HasErrorAnywhere(body) ==
    \/ HasTopLevelError(body)
    \/ /\ IsDict(body)
       /\ "result" \in DOMAIN body.v
       /\ IsDict(body.v["result"])
       /\ "error" \in DOMAIN body.v["result"].v

IsErrorResult == callResult.status = "error" /\ callResult.agent = CalledName

\* The failures the protocol client must absorb: a transport failure, a body
\* that is not JSON, an error envelope, and a body in which neither text
\* position holds a non-empty string (an empty or a wrongly-shaped reply).
IsFailureReply ==
    \/ callReply.kind \in {"timeout", "connect", "http_status", "bad_json"}
    \/ /\ callReply.kind = "body"
       /\ \/ HasTopLevelError(callReply.body)
          \/ ReplyText(callReply.body) = << >>

\* C2: on a timeout, a connection failure, a non-2xx status, an unparseable
\* or wrongly-shaped body, an error envelope or an empty reply,
\* _call_single_agent returns a result with status error carrying the called
\* peer's name and an error description.
C2_FailuresBecomeErrors ==
    (callPc = "done" /\ IsFailureReply) =>
        /\ IsErrorResult
        /\ Len(callResult.error) > 0

\* C5: on an envelope without error member the reply text is the artifact
\* text when that is non-empty, else the status-message text; when both are
\* empty the result is the Empty response error, never a success.
C5_FirstNonEmptyWins ==
    (/\ callPc = "done"
     /\ callReply.kind = "body"
     /\ WellShaped(callReply.body)
     /\ ~HasTopLevelError(callReply.body)) =>
        LET chosen == ReplyText(callReply.body)
            n == Min(Len(chosen), MAX_RESPONSE_LENGTH)
        IN IF chosen # << >>
           THEN /\ callResult.status = "success"
                /\ callResult.agent = CalledName
                /\ IsStr(callResult.analysis)
                /\ SubSeq(callResult.analysis.v, 1, n) = SubSeq(chosen, 1, n)
           ELSE /\ IsErrorResult
                /\ callResult.error = << "Empty response" >>

\* The artifact text is empty and the status message carries the text.
C5_Witness ==
    /\ callPc = "done"
    /\ callReply.kind = "body"
    /\ WellShaped(callReply.body)
    /\ ~HasTopLevelError(callReply.body)
    /\ "artifacts" \in DOMAIN callReply.body.v["result"].v
    /\ ArtifactText(callReply.body) = << >>
    /\ StatusText(callReply.body) = << "s", "." >>
    /\ callResult.status = "success"
    /\ callResult.analysis.v = << "s", "." >>

\* Both texts are present and the artifact text wins.
C5_WitnessArtifactWins ==
    /\ callPc = "done"
    /\ callReply.kind = "body"
    /\ WellShaped(callReply.body)
    /\ ArtifactText(callReply.body) = << "a" >>
    /\ StatusText(callReply.body) = << "s", "." >>
    /\ callResult.status = "success"
    /\ callResult.analysis.v = << "a" >>

\* C6 as stated: an error member anywhere in the envelope, at the top level
\* or nested, yields an error result.
C6_ErrorAnywhere ==
    (/\ callPc = "done"
     /\ callReply.kind = "body"
     /\ HasErrorAnywhere(callReply.body)) =>
        IsErrorResult

\* C6 amended: an error member at the top level of the envelope, also next
\* to a result with extractable text, yields an error result carrying that
\* member stringified.
C6_TopLevelError ==
    (/\ callPc = "done"
     /\ callReply.kind = "body"
     /\ HasTopLevelError(callReply.body)) =>
        /\ IsErrorResult
        /\ callResult.error =
              IF callReply.body.v["error"].k = "null"
              THEN << "None" >>
              ELSE << "{", "'", "code", "': ", "-32600", "}" >>

\* An error envelope that also carries a result with extractable text.
C6_Witness ==
    /\ callPc = "done"
    /\ callReply.kind = "body"
    /\ HasTopLevelError(callReply.body)
    /\ WellShaped(callReply.body)
    /\ ArtifactText(callReply.body) = << "a" >>
    /\ callResult.status = "error"
    /\ callResult.error = << "{", "'", "code", "': ", "-32600", "}" >>

C7_WitnessUncut ==
    /\ callPc = "done"
    /\ callResult.status = "success"
    /\ WellShaped(callReply.body)
    /\ Len(ReplyText(callReply.body)) = MAX_RESPONSE_LENGTH
    /\ Len(callResult.analysis.v) = MAX_RESPONSE_LENGTH

(***************************************************************************)
(* Properties of the decision engine                                       *)
(***************************************************************************)
\* The score of a peer, 0 for a peer missing from the input.
ScoreOrZero(k) == IF k \in DOMAIN agent_scores THEN agent_scores[k] ELSE 0

\* The weighted sum over the five weight categories, in hundred-thousandths.
ExactSum ==
    WEIGHTS["technical"] * ScoreOrZero("technical")
        + WEIGHTS["fundamental"] * ScoreOrZero("fundamental")
        + WEIGHTS["news"] * ScoreOrZero("news")
        + WEIGHTS["expert"] * ScoreOrZero("expert")
        + WEIGHTS["risk"] * ScoreOrZero("risk")

ExampleScores ==
    [technical |-> 500, fundamental |-> 0, news |-> 500, expert |-> 500, risk |-> 0]

\* C8: compute_final_score returns the sum over the keys of the current
\* weights of weight times score, 0 for a missing peer, rounded to 4
\* decimals; nothing is redistributed, keys that are no weight category do
\* not count, and the default weights give 0.325 on the example.
C8_WeightedSum ==
    decPc = "scored" =>
        /\ DOMAIN WEIGHTS = Categories
        /\ 10 * final_score - ExactSum \in -5..5
        /\ (WEIGHTS = _DEFAULT_WEIGHTS /\ agent_scores = ExampleScores) =>
              final_score = 3250

\* Two peers are missing, a key that is no category is present, and the
\* weights of the missing peers are not given to the others.
C8_Witness ==
    /\ decPc = "scored"
    /\ WEIGHTS = _DEFAULT_WEIGHTS
    /\ DOMAIN agent_scores = {"technical", "news", "expert", "sentiment"}
    /\ agent_scores["technical"] = 500
    /\ agent_scores["news"] = 500
    /\ agent_scores["expert"] = 500
    /\ agent_scores["sentiment"] = -1000
    /\ final_score = 3250

\* The sum had to be rounded.
C8_WitnessRounded ==
    /\ decPc = "scored"
    /\ ExactSum % 10 # 0
    /\ final_score # 0

BothThresholds == {"buy", "sell"} \subseteq DOMAIN THRESHOLDS

Decided == decPc = "decided" /\ ~decision.raised

\* C9 as stated: BUY exactly when the score is strictly above buy, SELL
\* exactly when it is strictly below sell, HOLD otherwise.
C9_ExactlyWhen ==
    (decPc = "decided" /\ BothThresholds) =>
        /\ ~decision.raised
        /\ decision.val.action = "BUY" <=> final_score > THRESHOLDS["buy"]
        /\ decision.val.action = "SELL" <=> final_score < THRESHOLDS["sell"]
        /\ decision.val.action = "HOLD" <=>
              (final_score <= THRESHOLDS["buy"] /\ final_score >= THRESHOLDS["sell"])

\* C9 amended: BUY exactly when the score is strictly above buy, SELL exactly
\* when it is strictly below sell and not strictly above buy, HOLD otherwise;
\* a score equal to a threshold is never BUY or SELL on account of that
\* threshold, and with sell <= buy SELL is exactly "strictly below sell".
C9_ActionRule ==
    (decPc = "decided" /\ BothThresholds) =>
        /\ ~decision.raised
        /\ decision.val.action \in {"BUY", "SELL", "HOLD"}
        /\ decision.val.action = "BUY" <=> final_score > THRESHOLDS["buy"]
        /\ decision.val.action = "SELL" <=>
              (final_score < THRESHOLDS["sell"] /\ final_score <= THRESHOLDS["buy"])
        /\ THRESHOLDS["sell"] <= THRESHOLDS["buy"] =>
              /\ decision.val.action = "SELL" <=> final_score < THRESHOLDS["sell"]
              /\ final_score \in {THRESHOLDS["buy"], THRESHOLDS["sell"]} =>
                    decision.val.action = "HOLD"

\* The score equals the buy threshold and the action is HOLD.
C9_Witness ==
    /\ Decided
    /\ THRESHOLDS = _DEFAULT_THRESHOLDS
    /\ final_score = 3000
    /\ decision.val.action = "HOLD"

\* One ten-thousandth above the buy threshold the action is BUY.
C9_WitnessAbove ==
    /\ Decided
    /\ THRESHOLDS = _DEFAULT_THRESHOLDS
    /\ final_score = 3001
    /\ decision.val.action = "BUY"

\* The score equals the sell threshold and the action is HOLD.
C9_WitnessSell ==
    /\ Decided
    /\ THRESHOLDS = _DEFAULT_THRESHOLDS
    /\ final_score = -3000
    /\ decision.val.action = "HOLD"

PositionSize == IF "position_size" \in DOMAIN risk_output THEN risk_output["position_size"] ELSE 0

HighRisk == "risk_level" \in DOMAIN risk_output /\ risk_output["risk_level"] = "high"

\* C10: the quantity is 0 when the action is HOLD; otherwise it is the
\* position_size, or max(1, floor(position_size / 2)) under HIGH risk.
C10_Quantity ==
    Decided =>
        LET q == decision.val.quantity
        IN /\ decision.val.action = "HOLD" => q = 0
           /\ (decision.val.action # "HOLD" /\ ~HighRisk) => q = PositionSize
           /\ (decision.val.action # "HOLD" /\ HighRisk /\ PositionSize >= 2) =>
                 (2 * q <= PositionSize /\ PositionSize <= 2 * q + 1)
           /\ (decision.val.action # "HOLD" /\ HighRisk /\ PositionSize < 2) => q = 1

\* HOLD under HIGH risk with a position size of 5: the quantity is 0.
C10_Witness ==
    /\ Decided
    /\ decision.val.action = "HOLD"
    /\ HighRisk
    /\ PositionSize = 5
    /\ decision.val.quantity = 0

\* BUY under HIGH risk with a position size of 5: the quantity is 2.
C10_WitnessHalved ==
    /\ Decided
    /\ decision.val.action = "BUY"
    /\ HighRisk
    /\ PositionSize = 5
    /\ decision.val.quantity = 2

\* No peer answered: the score map is empty and the sizing output carries no
\* position size (it is empty or the error result of the sizing peer).
AllPeersFailed ==
    /\ DOMAIN agent_scores = {}
    /\ "position_size" \notin DOMAIN risk_output

\* C11: with an empty score map and no sizing output, make_decision under
\* the default thresholds returns a decision (it does not raise) whose
\* final score is 0, action HOLD and quantity 0, whatever the weights are.
C11_DegradedHold ==
    (decPc = "decided" /\ AllPeersFailed /\ THRESHOLDS = _DEFAULT_THRESHOLDS) =>
        /\ ~decision.raised
        /\ decision.val.final_score = 0
        /\ decision.val.action = "HOLD"
        /\ decision.val.quantity = 0

\* The degraded decision under weights other than the defaults, the sizing
\* peer having answered with its error result.
C11_Witness ==
    /\ Decided
    /\ AllPeersFailed
    /\ THRESHOLDS = _DEFAULT_THRESHOLDS
    /\ WEIGHTS # _DEFAULT_WEIGHTS
    /\ "status" \in DOMAIN risk_output
    /\ decision.val.action = "HOLD"
    /\ decision.val.quantity = 0

(***************************************************************************)
(* Properties of signal_to_score                                           *)
(***************************************************************************)
\* The argument is a string that spells the grade in any case, with
\* whitespace and nothing else before and after it.
Spells(grade) ==
    /\ signal.type \in {"str", "enum"}
    /\ \E before \in 0..Len(signal.chars) :
          /\ before + Len(grade) <= Len(signal.chars)
          /\ \A i \in 1..Len(signal.chars) :
                IF i > before /\ i <= before + Len(grade)
                THEN LowerChar(signal.chars[i]) = grade[i - before]
                ELSE signal.chars[i] \in Whitespace

C12_WitnessOther ==
    /\ sigPc = "done"
    /\ signal.type = "str"
    /\ signal.chars = << "s", "t", "r", "o", "n", "g", " ", "b", "u", "y" >>
    /\ signal_score = 0

(***************************************************************************)
(* Properties of compute_final_score on scaled scores                      *)
(***************************************************************************)
Abs(n) == IF n < 0 THEN -n ELSE n

C13_WitnessExact ==
    /\ decPc = "scaled"
    /\ WEIGHTS = _DEFAULT_WEIGHTS
    /\ DOMAIN agent_scores = Categories
    /\ \A key \in Categories : agent_scores[key] = 100
    /\ factor = 3
    /\ final_score = 1000
    /\ scaled_score = 3000

(***************************************************************************)
(* Properties of the configuration updates                                 *)
(***************************************************************************)
\* The sum of the five category weights of a mapping that has them all.
FiveSum(w) == w["technical"] + w["fundamental"] + w["news"] + w["expert"] + w["risk"]

\* A weight body the contract rejects: the key set is not the five
\* categories, or the sum is not within 0.01 of 1.0.
BadWeights(body) ==
    \/ DOMAIN body # Categories
    \/ FiveSum(body) < 99
    \/ FiveSum(body) > 101

\* Slot h takes a weight update whose body the contract rejects.
TakesBadWeights(h) ==
    /\ handlers[h].pc = "idle"
    /\ handlers'[h].op = "update_weights"
    /\ BadWeights(handlers'[h].body)

\* C14: a weight update with a wrong key set or a sum off 1.0 by more than
\* 0.01 is answered 400, never proceeds to a write, and the step that rejects
\* it leaves the stored weights, thresholds and prompt, the cached WEIGHTS
\* and THRESHOLDS and the agent instruction as they were.
C14_RejectedUnchanged ==
    /\ [][\A h \in Handlers : TakesBadWeights(h) =>
              /\ handlers'[h].response = 400
              /\ handlers'[h].pc = "done"
              /\ UNCHANGED << store, WEIGHTS, THRESHOLDS, instruction >>]_vars
    /\ [](\A h \in Handlers :
              (handlers[h].op = "update_weights" /\ BadWeights(handlers[h].body)) =>
                  (handlers[h].pc = "done" /\ handlers[h].response = 400))

\* A body summing to 1.02 was rejected after another update had been
\* accepted and reloaded; the store and the cache hold the accepted weights.
C14_Witness ==
    \E h \in Handlers :
        /\ handlers[h].response = 400
        /\ DOMAIN handlers[h].body = Categories
        /\ FiveSum(handlers[h].body) = 102
        /\ store.weights # _DEFAULT_WEIGHTS
        /\ WEIGHTS = store.weights

\* A body with a missing key was rejected.
C14_WitnessKeys ==
    \E h \in Handlers :
        /\ handlers[h].response = 400
        /\ DOMAIN handlers[h].body # Categories

\* The WeightConfig invariant: the five categories, each weight in [0, 1],
\* the sum within 0.01 of 1.0.
WeightConfigOk(w) ==
    /\ DOMAIN w = Categories
    /\ \A key \in Categories : w[key] >= 0 /\ w[key] <= 100
    /\ FiveSum(w) >= 99
    /\ FiveSum(w) <= 101

\* C15: whatever updates were accepted or rejected, the stored and the
\* cached weights map each of the five categories to a weight in [0, 1] and
\* sum to 1.0 within 0.01.
C15_WeightInvariant ==
    /\ WeightConfigOk(store.weights)
    /\ WeightConfigOk(WEIGHTS)

\* C16: a threshold mapping without buy or sell, or with other keys, is never
\* stored or cached, and determine_action never raises.
C16_MalformedRejected ==
    /\ DOMAIN store.thresholds = {"buy", "sell"}
    /\ DOMAIN THRESHOLDS = {"buy", "sell"}
    /\ \A h \in Handlers :
          (handlers[h].op = "update_thresholds" /\ handlers[h].pc = "done"
              /\ DOMAIN handlers[h].body # {"buy", "sell"}) =>
                 handlers[h].response = 400
    /\ decPc = "decided" => ~decision.raised

\* determine_action runs in this step, under thresholds with sell > buy.
DecidesInverted ==
    /\ decPc = "scored"
    /\ decPc' = "decided"
    /\ BothThresholds
    /\ THRESHOLDS["sell"] > THRESHOLDS["buy"]

\* C17 as stated: under thresholds with sell > buy every final score
\* strictly between buy and sell resolves to HOLD.
C17_HoldDominated ==
    [][(DecidesInverted /\ final_score > THRESHOLDS["buy"]
            /\ final_score < THRESHOLDS["sell"]) =>
          (~decision'.raised /\ decision'.val.action = "HOLD")]_vars

\* C17 amended: an update with sell > buy is accepted like any other, and
\* under such thresholds every final score above buy, those strictly between
\* buy and sell included, resolves to BUY and every other score to SELL;
\* HOLD is not an outcome.
C17_InvertedNeverHolds ==
    /\ [][DecidesInverted =>
              /\ ~decision'.raised
              /\ decision'.val.action =
                    IF final_score > THRESHOLDS["buy"] THEN "BUY" ELSE "SELL"]_vars
    /\ [](\A h \in Handlers :
              (handlers[h].op = "update_thresholds" /\ handlers[h].pc = "done") =>
                  handlers[h].response = 200)

\* The update buy = -0.3, sell = 0.3 was answered 200 and is cached; the
\* final score 0.05 lies strictly between the two and the action is BUY.
C17_Witness ==
    /\ decPc = "decided"
    /\ ~decision.raised
    /\ \E h \in Handlers :
          /\ handlers[h].op = "update_thresholds"
          /\ handlers[h].response = 200
          /\ handlers[h].body = [buy |-> -3000, sell |-> 3000]
    /\ THRESHOLDS = [buy |-> -3000, sell |-> 3000]
    /\ final_score = 500
    /\ decision.val.action = "BUY"

\* Under the same thresholds a score not above buy resolves to SELL.
C17_WitnessSell ==
    /\ decPc = "decided"
    /\ ~decision.raised
    /\ THRESHOLDS = [buy |-> -3000, sell |-> 3000]
    /\ final_score < -3000
    /\ decision.val.action = "SELL"

\* The weights that entered the sum so far are those of the mapping v.
UsedFrom(v) ==
    /\ DOMAIN v = Categories
    /\ \A key \in DOMAIN scorer.used : scorer.used[key] = v[key]
    /\ (decPc \in {"scored", "decided"}) =>
          /\ DOMAIN scorer.used = Categories
          /\ 10 * final_score - (v["technical"] * ScoreOrZero("technical")
                                   + v["fundamental"] * ScoreOrZero("fundamental")
                                   + v["news"] * ScoreOrZero("news")
                                   + v["expert"] * ScoreOrZero("expert")
                                   + v["risk"] * ScoreOrZero("risk")) \in -5..5

\* C18: while updates and reloads run, all weights entering one
\* compute_final_score call are those of one mapping the store has held, and
\* the final score is the rounded weighted sum under that mapping.
C18_ConsistentSnapshot ==
    decPc \in {"summing", "scored", "decided"} => \E v \in written : UsedFrom(v)

\* A reload replaced WEIGHTS while the sum was under way: two terms were
\* added under the old mapping, three are still to come.
C18_Witness ==
    /\ decPc = "summing"
    /\ Len(scorer.keys) = 3
    /\ scorer.used = [technical |-> 30, fundamental |-> 25]
    /\ WEIGHTS = [technical |-> 50, fundamental |-> 20, news |-> 10, expert |-> 10,
                  risk |-> 10]

\* The sum was finished under the mapping it began with, the cache holding
\* another by then.
C18_WitnessFinished ==
    /\ decPc = "scored"
    /\ scorer.used = _DEFAULT_WEIGHTS
    /\ WEIGHTS # _DEFAULT_WEIGHTS
    /\ final_score # 0

\* C19: ticker resolution is idempotent on the symbols it returns: when
\* lookup_ticker succeeded with a symbol and a market, lookup_ticker on that
\* symbol succeeds with the same symbol and market, whatever the provider
\* answers on the second call.
C19_Idempotent ==
    tkPc = "second" =>
        /\ tkSecond.status = "success"
        /\ tkSecond.ticker = tkFirst.ticker
        /\ tkSecond.market = tkFirst.market

\* C20: lookup_ticker reports not-found only after the alias tables and the
\* fallback search were both tried for the query.
C20_ExhaustedBeforeNotFound ==
    \A result \in {tkFirst, tkSecond} :
        result.status = "error" => {"alias", "search"} \subseteq result.tried

\* C21: lookup_ticker never raises: whatever the provider does at each
\* quote lookup and search, a finished lookup has returned a success or a
\* not-found result, and an exception of the fallback search gives the
\* not-found result of that step.
C21_NeverRaises ==
    /\ tkPc # "start" => tkFirst.status \in {"success", "error"}
    /\ tkPc = "second" => tkSecond.status \in {"success", "error"}
    /\ \A result \in {tkFirst, tkSecond} :
           "search" \in result.caught =>
               /\ result.status = "error"
               /\ "search" \in result.tried

\* A lookup in which the quote lookup of step 3 and the fallback search
\* both raised.
C21_Witness ==
    /\ tkPc = "first"
    /\ {"us_pattern", "search"} \subseteq tkFirst.caught
    /\ tkFirst.status = "error"

\* A lookup that succeeded although a quote lookup raised.
C21_WitnessSuccess ==
    /\ tkPc = "second"
    /\ tkSecond.status = "success"
    /\ tkSecond.caught # {}

Sized == position.pc = "done"

\* C22: a successful sizing with account_balance > 0 and risk_per_trade > 0
\* returns a position_size of at least 1; an empty history and an ATR that
\* cannot be computed are reported as an error result, and an error result
\* carries no position_size.
C22_SizeAtLeastOne ==
    Sized =>
        /\ position.result.status \in {"success", "error"}
        /\ (/\ position.result.status = "success"
            /\ position.args.account_balance > 0
            /\ position.args.risk_per_trade > 0)
               => (position.result.position_size \in Int
                   /\ position.result.position_size >= 1)
        /\ (~position.hist.raises /\ position.hist.rows < 14)
               => position.result.status = "error"
        /\ position.result.status = "error"
               => "position_size" \notin DOMAIN position.result

\* A successful sizing where the 20% cap allows no share and the minimum of
\* one share applies.
C22_Witness ==
    /\ Sized
    /\ position.result.status = "success"
    /\ position.args.account_balance = 1000
    /\ position.args.risk_per_trade = 200
    /\ position.hist.price = 250000
    /\ position.result.position_size = 1

\* A history too short for the ATR window, reported as an error.
C22_WitnessShort ==
    /\ Sized
    /\ position.hist.rows = 13
    /\ position.result.status = "error"

\* C23: on success position_size is
\* max(1, min(floor(account_balance * risk_per_trade / (2 * ATR)),
\*            floor(0.20 * account_balance / current_price))),
\* the stop-loss distance is 2 * ATR and the take-profit distance 1.5 times
\* the stop-loss distance.
C23_SizeFormula ==
    (Sized /\ position.result.status = "success") =>
        LET balance == position.args.account_balance
            risk == position.args.risk_per_trade
            atr == position.hist.atr
            price == position.hist.price
            stop == 2 * atr
            profit == (15 * stop) \div 10
        IN /\ position.result.position_size =
                  Max(1, Min((balance * risk) \div (10 * stop),
                             (balance * 200) \div price))
           /\ position.result.stop_loss_price = Round2(price - stop)
           /\ position.result.take_profit_price = Round2(price + profit)
           /\ position.result.risk_reward_ratio = 150

\* A successful sizing where the size by risk exceeds the cap by value and
\* the cap is returned.
C23_Witness ==
    /\ Sized
    /\ position.result.status = "success"
    /\ position.args.account_balance = 100000
    /\ position.args.risk_per_trade = 5000
    /\ position.hist.atr = 333
    /\ position.hist.price = 21000
    /\ position.result.position_size = 952

\* A successful sizing with a negative balance, where int() and floor differ
\* before the minimum of one share.
C23_WitnessNegative ==
    /\ Sized
    /\ position.result.status = "success"
    /\ position.args.account_balance = -1000
    /\ position.args.risk_per_trade = 200
    /\ position.hist.atr = 333
    /\ position.result.position_size = 1

\* C24: the logging middleware does not alter the exchange: when its call
\* has ended, it has raised nothing, the application has received exactly
\* the request body bytes that arrived, and the client has received every
\* response message of the application once, unchanged and in order.
C24_Transparent ==
    middleware.pc \in {"done", "raised"} =>
        /\ middleware.raised = "none"
        /\ middleware.app_received = middleware.request.bytes
        /\ middleware.forwarded = middleware.all_responses

\* C25: the reload notification is attempted at most once per update, and
\* however its POST ends, the update completes with status updated and the
\* new prompt is the stored one.
C25_BestEffortNotify ==
    /\ prompt_update.attempts <= 1
    /\ (prompt_update.pc = "done" /\ prompt_update.attempts = 1) =>
           /\ prompt_update.post \in PostOutcomes
           /\ prompt_update.response = "updated"
           /\ prompt_update.prompts[prompt_update.agent_name] = prompt_update.prompt

\* An update of a peer's prompt, after an earlier one, whose POST timed out.
C25_Witness ==
    /\ prompt_update.pc = "done"
    /\ prompt_update.requests = 2
    /\ prompt_update.agent_name = "risk_agent"
    /\ prompt_update.post = "ReadTimeout"
    /\ prompt_update.response = "updated"

\* C26: the request is never blocked on the notification: the handler of
\* update_prompt never waits for a POST to the peer that is unanswered.
C26_NeverBlocked ==
    ~(prompt_update.pc = "await_post" /\ prompt_update.post = "outstanding")

\* A step in which a handler runs reload_config.
ReloadStep ==
    \E h \in Handlers :
        /\ handlers[h].pc \in {"set_instruction", "reload"}
        /\ handlers'[h].pc = "done"

\* The value under a key cannot be read as a JSON document.
Unusable(key) == ~redis.up \/ redis[key] \in UnusableForms

\* C27: reload_config never raises and leaves each of WEIGHTS and THRESHOLDS
\* set to the built-in defaults when the store is unreachable, holds no value
\* for the key or holds a value that is no JSON, and to the stored document
\* otherwise; the handler that reloaded answers 200.
C27_SafeDefaults ==
    [][ReloadStep =>
          /\ WEIGHTS' = IF Unusable("weights") THEN _DEFAULT_WEIGHTS ELSE store.weights
          /\ THRESHOLDS' = IF Unusable("thresholds") THEN _DEFAULT_THRESHOLDS
                                                     ELSE store.thresholds
          /\ \E h \in Handlers : handlers[h].pc # "done" /\ handlers'[h].response = 200
      ]_vars

\* The one update wrote weights other than the defaults and reloaded while
\* the store was unreachable: the cache holds the defaults.
C27_Witness ==
    /\ updates = 1
    /\ \E h \in Handlers : /\ handlers[h].op = "update_weights"
                            /\ handlers[h].pc = "done"
                            /\ handlers[h].response = 200
    /\ ~redis.up
    /\ store.weights # _DEFAULT_WEIGHTS
    /\ WEIGHTS = _DEFAULT_WEIGHTS

\* A threshold update reloaded while the value under "weights" was no JSON.
C27_WitnessInvalid ==
    /\ \E h \in Handlers : /\ handlers[h].op = "update_thresholds"
                            /\ handlers[h].pc = "done"
                            /\ handlers[h].response = 200
    /\ redis.up
    /\ redis.weights = "invalid"
    /\ store.weights # _DEFAULT_WEIGHTS
    /\ WEIGHTS = _DEFAULT_WEIGHTS
    /\ THRESHOLDS = store.thresholds
    /\ THRESHOLDS # _DEFAULT_THRESHOLDS

\* No update is in flight.
NoUpdateInFlight == \A h \in Handlers : handlers[h].pc \in {"idle", "done"}

\* C28: once every update has finished, failed ones included, the cached
\* WEIGHTS and THRESHOLDS equal the documents the store holds.
C28_CacheAgrees ==
    (NoUpdateInFlight /\ redis.weights = "json" /\ redis.thresholds = "json") =>
        /\ WEIGHTS = store.weights
        /\ THRESHOLDS = store.thresholds

\* The rows of the weight table as update_weights writes them for a mapping.
TableOf(weights) == [i \in 1..Len(KeyOrder) |-> Pct(Get(weights, KeyOrder[i], 0))]

\* C29: once the concurrent weight updates have finished, the weight table in
\* the stored orchestrator prompt and in the live instruction shows the
\* weights that the store holds.
C29_PromptAgrees ==
    (NoUpdateInFlight /\ store.prompt.kind = "text" /\ store.prompt.section) =>
        /\ store.prompt.rows = TableOf(store.weights)
        /\ instruction.rows = TableOf(store.weights)

\* C30: the quantity of a decision never exceeds the position size that the
\* sizing output reports, an absent position size counting as 0.
C30_QuantityWithinSize ==
    Decided => decision.val.quantity <= PositionSize

====
